---- MODULE Spec2Model ----
\* A model of the compliance-mcp core: the Resource Accessor (client.go), the
\* Snapshot Collector (collector.go) and the Diagnosis Engine (analyzer.go).
\* Every operation is a synchronous call: an action picks the cluster state the
\* call reads (arg), runs the whole handler and stores what it returns (ret).
EXTENDS Integers, Sequences, FiniteSets, TLC

VARIABLES op, arg, ret

vars == <<op, arg, ret>>

\* ---------------------------------------------------------------------------
\* Bounds of the model
\* ---------------------------------------------------------------------------
MaxScans == 2
MaxPods == 2
MaxContainers == 2
MaxEvents == 2

\* ---------------------------------------------------------------------------
\* Generic helpers
\* ---------------------------------------------------------------------------
Nil == <<>>

Some(x) == <<x>>

EmptyMap == [k \in {} |-> k]

MapPut(m, k, v) == [x \in (DOMAIN m) \cup {k} |-> IF x = k THEN v ELSE m[x]]

SeqsUpTo(S, n) == UNION {[1..k -> S] : k \in 0..n}

Range(s) == {s[i] : i \in DOMAIN s}

InjectiveSeqsUpTo(S, n) ==
    {s \in SeqsUpTo(S, n) : \A i, j \in DOMAIN s : i # j => s[i] # s[j]}

RECURSIVE Flatten(_)
Flatten(ss) == IF ss = <<>> THEN <<>> ELSE Head(ss) \o Flatten(Tail(ss))

RECURSIVE SumSeq(_)
SumSeq(s) == IF s = <<>> THEN 0 ELSE Head(s) + SumSeq(Tail(s))

\* strings.Contains(s, substr)
Contains(s, substr) ==
    \E i \in 1..(Len(s) - Len(substr) + 1) : SubSeq(s, i, i + Len(substr) - 1) = substr

\* ---------------------------------------------------------------------------
\* types.go: the enum-like string constants
\* ---------------------------------------------------------------------------
PhasePending == "PENDING"
PhaseLaunching == "LAUNCHING"
PhaseRunning == "RUNNING"
PhaseAggregating == "AGGREGATING"
PhaseDone == "DONE"

ResultNotAvailable == "NOT-AVAILABLE"
ResultCompliant == "COMPLIANT"
ResultNonCompliant == "NON-COMPLIANT"
ResultError == "ERROR"
ResultInconsistent == "INCONSISTENT"
ResultNotApplicable == "NOT-APPLICABLE"

CheckPass == "PASS"
CheckFail == "FAIL"
CheckManual == "MANUAL"
CheckError == "ERROR"
CheckInfo == "INFO"

\* analyzer.go: issue types and severities
IssueTypeStuckScan == "StuckScan"
IssueTypeFailedPod == "FailedPod"
IssueTypePermission == "Permission"
IssueTypeResourceConstraint == "ResourceConstraint"
IssueTypeOOM == "OutOfMemory"
IssueTypeMisconfiguration == "Misconfiguration"

SeverityCritical == "Critical"
SeverityWarning == "Warning"
SeverityInfo == "Info"

\* corev1 constants used by the code
PodPending == "Pending"
PodRunning == "Running"
PodSucceeded == "Succeeded"
PodFailed == "Failed"
PodReady == "Ready"
PodScheduled == "PodScheduled"
ConditionTrue == "True"
ConditionFalse == "False"
EventTypeNormal == "Normal"
EventTypeWarning == "Warning"

\* ---------------------------------------------------------------------------
\* client.go: the Resource Accessor.  A cluster is a record of what each list
\* call of the API server answers; a read returns [err, items].
\* ---------------------------------------------------------------------------
Failed(items) == [err |-> TRUE, items |-> <<>>]

Ok(items) == [err |-> FALSE, items |-> items]

\* A raw (unstructured) ComplianceScan object of the cluster:
\*   [name, suite, hasStatus, phase, result, errorMessage, startTimestamp]
\* startTimestamp is Nil or Some(seconds).
unstructuredToComplianceScan(obj) ==
    [Name |-> obj.name,
     Labels |-> obj.suite,
     Status |-> [Phase |-> IF obj.hasStatus THEN obj.phase ELSE "",
                 Result |-> IF obj.hasStatus THEN obj.result ELSE "",
                 ErrorMessage |-> IF obj.hasStatus THEN obj.errorMessage ELSE "",
                 StartTimestamp |-> Nil]]

unstructuredToComplianceSuite(obj) ==
    [Name |-> obj.name,
     Status |-> [Phase |-> IF obj.hasStatus THEN obj.phase ELSE "",
                 Result |-> IF obj.hasStatus THEN obj.result ELSE "",
                 ErrorMessage |-> IF obj.hasStatus THEN obj.errorMessage ELSE "",
                 ScanStatuses |-> <<>>]]

unstructuredToCheckResult(obj) ==
    [Name |-> obj.name, Status |-> obj.status]

unstructuredToRemediation(obj) ==
    [Name |-> obj.name, Apply |-> obj.apply]

MapSeq(F(_), s) == [i \in DOMAIN s |-> F(s[i])]

GetComplianceSuites(cluster) ==
    IF cluster.suitesErr THEN Failed(<<>>)
    ELSE Ok(MapSeq(unstructuredToComplianceSuite, cluster.suites))

\* Get by name: the API server answers an error when no suite has the name.
\* Returns [err, items]; items holds the suite on success.
GetComplianceSuite(cluster, name) ==
    LET found == SelectSeq(cluster.suites, LAMBDA o : o.name = name)
    IN  IF cluster.suitesErr \/ found = <<>> THEN Failed(<<>>)
        ELSE Ok(<<unstructuredToComplianceSuite(found[1])>>)

\* The label selector is built only for a non-empty suiteLabel; the API server
\* applies it.
GetComplianceScans(cluster, suiteLabel) ==
    IF cluster.scansErr THEN Failed(<<>>)
    ELSE LET listed == IF suiteLabel # ""
                       THEN SelectSeq(cluster.scans, LAMBDA o : o.suite = suiteLabel)
                       ELSE cluster.scans
         IN  Ok(MapSeq(unstructuredToComplianceScan, listed))

GetComplianceCheckResults(cluster, scanName, statusFilter) ==
    IF scanName \in cluster.checkErr THEN Failed(<<>>)
    ELSE LET labelled == IF scanName \in DOMAIN cluster.checks
                         THEN cluster.checks[scanName] ELSE <<>>
             listed == IF statusFilter # ""
                       THEN SelectSeq(labelled, LAMBDA o : o.status = statusFilter)
                       ELSE labelled
         IN  Ok(MapSeq(unstructuredToCheckResult, listed))

GetComplianceRemediations(cluster, scanName) ==
    IF scanName \in cluster.remErr THEN Failed(<<>>)
    ELSE Ok(MapSeq(unstructuredToRemediation,
                   IF scanName \in DOMAIN cluster.rems
                   THEN cluster.rems[scanName] ELSE <<>>))

GetOperatorPods(cluster) ==
    IF cluster.operatorPodsErr THEN Failed(<<>>) ELSE Ok(cluster.operatorPods)

GetScannerPods(cluster, scanName) ==
    IF scanName \in cluster.podsErr THEN Failed(<<>>)
    ELSE Ok(IF scanName \in DOMAIN cluster.scannerPods
            THEN cluster.scannerPods[scanName] ELSE <<>>)

GetEvents(cluster, objectKind, objectName) ==
    IF objectName \in cluster.eventsErr THEN Failed(<<>>)
    ELSE Ok(IF objectKind = "ComplianceScan" /\ objectName \in DOMAIN cluster.events
            THEN cluster.events[objectName] ELSE <<>>)

\* ---------------------------------------------------------------------------
\* collector.go
\* ---------------------------------------------------------------------------
\* A pod: [Name, Phase, Reason, Conditions, ContainerStatuses]
\*   condition: [Type, Status, Reason, Message]
\*   container status: [Name, Waiting, LastTerminated, RestartCount]
\*     Waiting is Nil or Some([Reason, Message]); LastTerminated is Nil or
\*     Some([Reason]).
RECURSIVE isPodReadyFrom(_, _)
isPodReadyFrom(conditions, i) ==
    IF i > Len(conditions) THEN FALSE
    ELSE IF conditions[i].Type = PodReady THEN conditions[i].Status = ConditionTrue
    ELSE isPodReadyFrom(conditions, i + 1)

\* isPodReady that takes a pod without a Ready condition for ready.
isPodReady_MissingIsReady(pod) ==
    \A i \in DOMAIN pod.Conditions :
        pod.Conditions[i].Type = PodReady => pod.Conditions[i].Status = ConditionTrue

isPodReady(pod) == isPodReadyFrom(pod.Conditions, 1)

RestartLimit == 5

\* podRestarts as the largest restart count of a container instead of the sum.
podRestarts_LargestContainer(pod) ==
    LET counts == {pod.ContainerStatuses[i].RestartCount : i \in DOMAIN pod.ContainerStatuses}
    IN  IF counts = {} THEN 0 ELSE CHOOSE m \in counts : \A c \in counts : c <= m

podRestarts(pod) ==
    SumSeq([i \in DOMAIN pod.ContainerStatuses |-> pod.ContainerStatuses[i].RestartCount])

\* checkOperatorPod that sets IsHealthy from the pod at hand alone.
checkOperatorPod_LastPodDecides(status, pod) ==
    LET ready == isPodReady(pod)
        restarts == podRestarts(pod)
        notRunning == pod.Phase # PodRunning
        podStatus == [Name |-> pod.Name,
                      Phase |-> pod.Phase,
                      Reason |-> IF notRunning THEN pod.Phase ELSE "",
                      Ready |-> ready,
                      Restarts |-> restarts]
        i1 == IF notRunning
              THEN <<"Pod " \o pod.Name \o " is in phase " \o pod.Phase>> ELSE <<>>
        i2 == IF ~ready THEN <<"Pod " \o pod.Name \o " is not ready">> ELSE <<>>
        i3 == IF restarts > RestartLimit
              THEN <<"Pod " \o pod.Name \o " has restarted " \o ToString(restarts) \o " times">>
              ELSE <<>>
    IN  [OperatorPods |-> Append(status.OperatorPods, podStatus),
         IsHealthy |-> ~notRunning /\ ready,
         Issues |-> status.Issues \o i1 \o i2 \o i3]

\* One iteration of the per-pod loop of collectOperatorStatus.
checkOperatorPod(status, pod) ==
    LET ready == isPodReady(pod)
        restarts == podRestarts(pod)
        notRunning == pod.Phase # PodRunning
        podStatus == [Name |-> pod.Name,
                      Phase |-> pod.Phase,
                      Reason |-> IF notRunning THEN pod.Phase ELSE "",
                      Ready |-> ready,
                      Restarts |-> restarts]
        i1 == IF notRunning
              THEN <<"Pod " \o pod.Name \o " is in phase " \o pod.Phase>> ELSE <<>>
        i2 == IF ~ready THEN <<"Pod " \o pod.Name \o " is not ready">> ELSE <<>>
        i3 == IF restarts > RestartLimit
              THEN <<"Pod " \o pod.Name \o " has restarted " \o ToString(restarts) \o " times">>
              ELSE <<>>
    IN  [OperatorPods |-> Append(status.OperatorPods, podStatus),
         IsHealthy |-> status.IsHealthy /\ ~notRunning /\ ready,
         Issues |-> status.Issues \o i1 \o i2 \o i3]

RECURSIVE checkOperatorPods(_, _, _)
checkOperatorPods(status, pods, i) ==
    IF i > Len(pods) THEN status
    ELSE checkOperatorPods(checkOperatorPod(status, pods[i]), pods, i + 1)

\* collectOperatorStatus without the len(pods) == 0 branch.
collectOperatorStatus_NoEmptyCheck(cluster) ==
    LET status == [OperatorPods |-> <<>>, IsHealthy |-> TRUE, Issues |-> <<>>]
        pods == GetOperatorPods(cluster)
    IN  IF pods.err THEN [err |-> TRUE, status |-> status]
        ELSE [err |-> FALSE, status |-> checkOperatorPods(status, pods.items, 1)]

\* Returns [err, status].
collectOperatorStatus(cluster) ==
    LET status == [OperatorPods |-> <<>>, IsHealthy |-> TRUE, Issues |-> <<>>]
        pods == GetOperatorPods(cluster)
    IN  IF pods.err THEN [err |-> TRUE, status |-> status]
        ELSE IF Len(pods.items) = 0
        THEN [err |-> FALSE,
              status |-> [status EXCEPT !.IsHealthy = FALSE,
                                        !.Issues = Append(status.Issues,
                                            "No compliance operator pods found")]]
        ELSE [err |-> FALSE, status |-> checkOperatorPods(status, pods.items, 1)]

\* collectScan with the err == nil tests dropped: a failed fetch stores its
\* (empty) list.
collectScan_StoresFailedFetch(cluster, data, scan) ==
    [data EXCEPT
        !.Scans = MapPut(data.Scans, scan.Name, scan),
        !.CheckResults = MapPut(data.CheckResults, scan.Name,
                                GetComplianceCheckResults(cluster, scan.Name, "").items),
        !.Remediations = MapPut(data.Remediations, scan.Name,
                                GetComplianceRemediations(cluster, scan.Name).items),
        !.reads = data.reads \o <<<<"GetComplianceCheckResults", scan.Name>>,
                                  <<"GetComplianceRemediations", scan.Name>>>>]

\* collectScan that stores a fetched list only when it has an element.
collectScan_SkipsEmptyLists(cluster, data, scan) ==
    LET checkResults == GetComplianceCheckResults(cluster, scan.Name, "")
        remediations == GetComplianceRemediations(cluster, scan.Name)
    IN  [data EXCEPT
            !.Scans = MapPut(data.Scans, scan.Name, scan),
            !.CheckResults = IF ~checkResults.err /\ Len(checkResults.items) > 0
                             THEN MapPut(data.CheckResults, scan.Name, checkResults.items)
                             ELSE data.CheckResults,
            !.Remediations = IF ~remediations.err /\ Len(remediations.items) > 0
                             THEN MapPut(data.Remediations, scan.Name, remediations.items)
                             ELSE data.Remediations,
            !.reads = data.reads \o <<<<"GetComplianceCheckResults", scan.Name>>,
                                      <<"GetComplianceRemediations", scan.Name>>>>]

\* One iteration of the per-scan loop of CollectAllData.
collectScan(cluster, data, scan) ==
    LET checkResults == GetComplianceCheckResults(cluster, scan.Name, "")
        remediations == GetComplianceRemediations(cluster, scan.Name)
    IN  [data EXCEPT
            !.Scans = MapPut(data.Scans, scan.Name, scan),
            !.CheckResults = IF ~checkResults.err
                             THEN MapPut(data.CheckResults, scan.Name, checkResults.items)
                             ELSE data.CheckResults,
            !.Remediations = IF ~remediations.err
                             THEN MapPut(data.Remediations, scan.Name, remediations.items)
                             ELSE data.Remediations,
            !.reads = data.reads \o <<<<"GetComplianceCheckResults", scan.Name>>,
                                      <<"GetComplianceRemediations", scan.Name>>>>]

RECURSIVE collectScans(_, _, _, _)
collectScans(cluster, data, scans, i) ==
    IF i > Len(scans) THEN data
    ELSE collectScans(cluster, collectScan(cluster, data, scans[i]), scans, i + 1)

NoData == [Suites |-> <<>>, Scans |-> EmptyMap, CheckResults |-> EmptyMap,
           Remediations |-> EmptyMap,
           OperatorStatus |-> [OperatorPods |-> <<>>, IsHealthy |-> FALSE, Issues |-> <<>>],
           reads |-> <<>>]

\* CollectAllData that keeps the data when collectOperatorStatus fails.
CollectAllData_IgnoresOperatorError(cluster) ==
    LET suites == GetComplianceSuites(cluster)
        allScans == GetComplianceScans(cluster, "")
        r1 == <<<<"GetComplianceSuites", "">>>>
        r2 == Append(r1, <<"GetComplianceScans", "">>)
        d0 == [NoData EXCEPT !.Suites = suites.items, !.reads = r2]
        d1 == collectScans(cluster, d0, allScans.items, 1)
        operatorStatus == collectOperatorStatus(cluster)
        r3 == Append(d1.reads, <<"GetOperatorPods", "">>)
    IN  IF suites.err
        THEN [err |-> "failed to collect suites", data |-> Nil, reads |-> r1]
        ELSE IF allScans.err
        THEN [err |-> "failed to collect scans", data |-> Nil, reads |-> r2]
        ELSE [err |-> "",
              data |-> Some([Suites |-> d1.Suites, Scans |-> d1.Scans,
                             CheckResults |-> d1.CheckResults,
                             Remediations |-> d1.Remediations,
                             OperatorStatus |-> operatorStatus.status]),
              reads |-> r3]

\* CollectAllData that tests the suite listing's error only after the scans
\* are listed.
CollectAllData_LateSuiteCheck(cluster) ==
    LET suites == GetComplianceSuites(cluster)
        allScans == GetComplianceScans(cluster, "")
        r2 == <<<<"GetComplianceSuites", "">>, <<"GetComplianceScans", "">>>>
        d0 == [NoData EXCEPT !.Suites = suites.items, !.reads = r2]
        d1 == collectScans(cluster, d0, allScans.items, 1)
        operatorStatus == collectOperatorStatus(cluster)
        r3 == Append(d1.reads, <<"GetOperatorPods", "">>)
    IN  IF suites.err
        THEN [err |-> "failed to collect suites", data |-> Nil, reads |-> r2]
        ELSE IF allScans.err
        THEN [err |-> "failed to collect scans", data |-> Nil, reads |-> r2]
        ELSE IF operatorStatus.err
        THEN [err |-> "failed to collect operator status", data |-> Nil, reads |-> r3]
        ELSE [err |-> "",
              data |-> Some([Suites |-> d1.Suites, Scans |-> d1.Scans,
                             CheckResults |-> d1.CheckResults,
                             Remediations |-> d1.Remediations,
                             OperatorStatus |-> operatorStatus.status]),
              reads |-> r3]

\* Returns [err, data, reads]: data is meaningful only when err = "" (the code
\* returns nil otherwise); reads is the sequence of Accessor reads issued.
CollectAllData(cluster) ==
    LET suites == GetComplianceSuites(cluster)
        allScans == GetComplianceScans(cluster, "")
        r1 == <<<<"GetComplianceSuites", "">>>>
        r2 == Append(r1, <<"GetComplianceScans", "">>)
        d0 == [NoData EXCEPT !.Suites = suites.items, !.reads = r2]
        d1 == collectScans(cluster, d0, allScans.items, 1)
        operatorStatus == collectOperatorStatus(cluster)
        r3 == Append(d1.reads, <<"GetOperatorPods", "">>)
    IN  IF suites.err
        THEN [err |-> "failed to collect suites", data |-> Nil, reads |-> r1]
        ELSE IF allScans.err
        THEN [err |-> "failed to collect scans", data |-> Nil, reads |-> r2]
        ELSE IF operatorStatus.err
        THEN [err |-> "failed to collect operator status", data |-> Nil, reads |-> r3]
        ELSE [err |-> "",
              data |-> Some([Suites |-> d1.Suites, Scans |-> d1.Scans,
                             CheckResults |-> d1.CheckResults,
                             Remediations |-> d1.Remediations,
                             OperatorStatus |-> operatorStatus.status]),
              reads |-> r3]

\* One iteration of the per-scan loop of CollectSuiteData.
collectSuiteScan(cluster, data, scan) ==
    LET checkResults == GetComplianceCheckResults(cluster, scan.Name, "")
        remediations == GetComplianceRemediations(cluster, scan.Name)
    IN  [data EXCEPT
            !.CheckResults = IF ~checkResults.err
                             THEN MapPut(data.CheckResults, scan.Name, checkResults.items)
                             ELSE data.CheckResults,
            !.Remediations = IF ~remediations.err
                             THEN MapPut(data.Remediations, scan.Name, remediations.items)
                             ELSE data.Remediations,
            !.reads = data.reads \o <<<<"GetComplianceCheckResults", scan.Name>>,
                                      <<"GetComplianceRemediations", scan.Name>>>>]

RECURSIVE collectSuiteScans(_, _, _, _)
collectSuiteScans(cluster, data, scans, i) ==
    IF i > Len(scans) THEN data
    ELSE collectSuiteScans(cluster, collectSuiteScan(cluster, data, scans[i]), scans, i + 1)

\* CollectSuiteData that lists every scan instead of the suite's.
CollectSuiteData_AllScans(cluster, suiteName) ==
    LET suite == GetComplianceSuite(cluster, suiteName)
        scans == GetComplianceScans(cluster, "")
        r1 == <<<<"GetComplianceSuite", suiteName>>>>
        r2 == Append(r1, <<"GetComplianceScans", "">>)
        d0 == [Scans |-> scans.items, CheckResults |-> EmptyMap,
               Remediations |-> EmptyMap, reads |-> r2]
        d1 == collectSuiteScans(cluster, d0, scans.items, 1)
    IN  IF suite.err
        THEN [err |-> "failed to get suite", data |-> Nil, reads |-> r1]
        ELSE IF scans.err
        THEN [err |-> "failed to get scans for suite", data |-> Nil, reads |-> r2]
        ELSE [err |-> "",
              data |-> Some([Suite |-> suite.items[1], Scans |-> d1.Scans,
                             CheckResults |-> d1.CheckResults,
                             Remediations |-> d1.Remediations]),
              reads |-> d1.reads]

\* Returns [err, data, reads] as CollectAllData does.
CollectSuiteData(cluster, suiteName) ==
    LET suite == GetComplianceSuite(cluster, suiteName)
        scans == GetComplianceScans(cluster, suiteName)
        r1 == <<<<"GetComplianceSuite", suiteName>>>>
        r2 == Append(r1, <<"GetComplianceScans", suiteName>>)
        d0 == [Scans |-> scans.items, CheckResults |-> EmptyMap,
               Remediations |-> EmptyMap, reads |-> r2]
        d1 == collectSuiteScans(cluster, d0, scans.items, 1)
    IN  IF suite.err
        THEN [err |-> "failed to get suite", data |-> Nil, reads |-> r1]
        ELSE IF scans.err
        THEN [err |-> "failed to get scans for suite", data |-> Nil, reads |-> r2]
        ELSE [err |-> "",
              data |-> Some([Suite |-> suite.items[1], Scans |-> d1.Scans,
                             CheckResults |-> d1.CheckResults,
                             Remediations |-> d1.Remediations]),
              reads |-> d1.reads]

NoCounts == [Pass |-> 0, Fail |-> 0, Manual |-> 0, Error |-> 0, Info |-> 0, Total |-> 0]

\* One iteration of GetCheckCounts' loop: Total++ and the switch on the status.
countCheck(counts, check) ==
    LET c == [counts EXCEPT !.Total = @ + 1]
    IN  IF check.Status = CheckPass THEN [c EXCEPT !.Pass = @ + 1]
        ELSE IF check.Status = CheckFail THEN [c EXCEPT !.Fail = @ + 1]
        ELSE IF check.Status = CheckManual THEN [c EXCEPT !.Manual = @ + 1]
        ELSE IF check.Status = CheckError THEN [c EXCEPT !.Error = @ + 1]
        ELSE IF check.Status = CheckInfo THEN [c EXCEPT !.Info = @ + 1]
        ELSE c

RECURSIVE countChecks(_, _, _)
countChecks(counts, checkResults, i) ==
    IF i > Len(checkResults) THEN counts
    ELSE countChecks(countCheck(counts, checkResults[i]), checkResults, i + 1)

GetCheckCounts(checkResults) == countChecks(NoCounts, checkResults, 1)

\* The float64 a percentage is returned as, kept as the exact quotient num/den.
Ratio(num, den) == [num |-> num, den |-> den]

\* CalculateCompliancePercentage dividing by Total instead of Pass + Fail.
CalculateCompliancePercentage_OverTotal(counts) ==
    IF counts.Total = 0 THEN Ratio(0, 1)
    ELSE Ratio(counts.Pass * 100, counts.Total)

CalculateCompliancePercentage(counts) ==
    IF counts.Total = 0 THEN Ratio(0, 1)
    ELSE LET automatedChecks == counts.Pass + counts.Fail
         IN  IF automatedChecks = 0 THEN Ratio(0, 1)
             ELSE Ratio(counts.Pass * 100, automatedChecks)

\* ---------------------------------------------------------------------------
\* analyzer.go
\* ---------------------------------------------------------------------------
\* Time is counted in seconds; a time.Duration is a number of seconds.
Minute == 60

RunningStuckMinutes == 30

LaunchingStuckMinutes == 10

HighRestartCount == 5

\* time.Since(t) for the wall-clock time now
Since(now, t) == now - t

\* elapsed.Round(time.Minute) printed with %v, for a positive duration
RoundedMinutes(d) == (d + (Minute \div 2)) \div Minute

DurationString(d) ==
    LET m == RoundedMinutes(d)
    IN  IF m >= 60 THEN ToString(m \div 60) \o "h" \o ToString(m % 60) \o "m0s"
        ELSE IF m > 0 THEN ToString(m) \o "m0s"
        ELSE "0s"

\* elapsedOver with >= for >.
elapsedOver_Inclusive(now, start, minutes) ==
    start # Nil /\ Since(now, start[1]) >= minutes * Minute

\* StartTimestamp != nil && time.Since(StartTimestamp.Time) > minutes*time.Minute
elapsedOver(now, start, minutes) ==
    start # Nil /\ Since(now, start[1]) > minutes * Minute

Issue(type, severity, description, resources, suggestion) ==
    [Type |-> type, Severity |-> severity, Description |-> description,
     Resources |-> resources, Suggestion |-> suggestion]

\* stuckScanIssues that looks at the result only of a scan that is not stuck
\* (else-if for the third if).
stuckScanIssues_ErrorOnlyIfNotStuck(scan, now) ==
    LET start == scan.Status.StartTimestamp
    IN  IF /\ scan.Status.Phase = PhaseRunning
           /\ elapsedOver(now, start, RunningStuckMinutes)
        THEN <<Issue(IssueTypeStuckScan, SeverityCritical,
                     "Scan '" \o scan.Name \o "' has been in RUNNING phase for "
                         \o DurationString(Since(now, start[1])),
                     <<scan.Name>>,
                     "Check scanner pod logs and events. The scan may be stuck due to pod failures, resource constraints, or permission issues.")>>
        ELSE IF /\ scan.Status.Phase = PhaseLaunching
                /\ elapsedOver(now, start, LaunchingStuckMinutes)
        THEN <<Issue(IssueTypeStuckScan, SeverityCritical,
                     "Scan '" \o scan.Name \o "' stuck in LAUNCHING phase",
                     <<scan.Name>>,
                     "Check if scanner pods are being created. Look for resource constraints or ImagePullBackOff errors.")>>
        ELSE IF scan.Status.Result = ResultError
        THEN <<Issue(IssueTypeFailedPod, SeverityCritical,
                     "Scan '" \o scan.Name \o "' completed with ERROR result: "
                         \o scan.Status.ErrorMessage,
                     <<scan.Name>>,
                     "Review scan logs and error message. Common causes include missing content, invalid profiles, or scanner pod failures.")>>
        ELSE <<>>

\* The body of DetectStuckScans' loop for one scan.
stuckScanIssues(scan, now) ==
    LET start == scan.Status.StartTimestamp
        running ==
            IF /\ scan.Status.Phase = PhaseRunning
               /\ elapsedOver(now, start, RunningStuckMinutes)
            THEN <<Issue(IssueTypeStuckScan, SeverityCritical,
                         "Scan '" \o scan.Name \o "' has been in RUNNING phase for "
                             \o DurationString(Since(now, start[1])),
                         <<scan.Name>>,
                         "Check scanner pod logs and events. The scan may be stuck due to pod failures, resource constraints, or permission issues.")>>
            ELSE <<>>
        launching ==
            IF /\ scan.Status.Phase = PhaseLaunching
               /\ elapsedOver(now, start, LaunchingStuckMinutes)
            THEN <<Issue(IssueTypeStuckScan, SeverityCritical,
                         "Scan '" \o scan.Name \o "' stuck in LAUNCHING phase",
                         <<scan.Name>>,
                         "Check if scanner pods are being created. Look for resource constraints or ImagePullBackOff errors.")>>
            ELSE <<>>
        errored ==
            IF scan.Status.Result = ResultError
            THEN <<Issue(IssueTypeFailedPod, SeverityCritical,
                         "Scan '" \o scan.Name \o "' completed with ERROR result: "
                             \o scan.Status.ErrorMessage,
                         <<scan.Name>>,
                         "Review scan logs and error message. Common causes include missing content, invalid profiles, or scanner pod failures.")>>
            ELSE <<>>
    IN  running \o launching \o errored

DetectStuckScans(scans, now) ==
    Flatten([i \in DOMAIN scans |-> stuckScanIssues(scans[i], now)])

\* containerStateIssues with the OOM check inside the Waiting != nil branch.
containerStateIssues_OOMOnlyWhenWaiting(pod, cs) ==
    IF cs.Waiting # Nil
    THEN LET reason == cs.Waiting[1].Reason
         IN  (IF reason = "ImagePullBackOff" \/ reason = "ErrImagePull"
              THEN <<Issue(IssueTypeFailedPod, SeverityCritical,
                           "Pod '" \o pod.Name \o "' cannot pull image: "
                               \o cs.Waiting[1].Message,
                           <<pod.Name>>,
                           "Verify image name and registry credentials. Check network connectivity to image registry.")>>
              ELSE IF reason = "CrashLoopBackOff"
              THEN <<Issue(IssueTypeFailedPod, SeverityCritical,
                           "Pod '" \o pod.Name \o "' is crash looping",
                           <<pod.Name>>,
                           "Check container logs for crash details. The scanner may be encountering a runtime error.")>>
              ELSE <<>>)
             \o
             (IF cs.LastTerminated # Nil /\ cs.LastTerminated[1].Reason = "OOMKilled"
              THEN <<Issue(IssueTypeOOM, SeverityCritical,
                           "Container '" \o cs.Name \o "' in pod '" \o pod.Name
                               \o "' was killed due to out of memory",
                           <<pod.Name>>,
                           "Increase memory limits for scanner pods in ScanSetting. The scan requires more memory than allocated.")>>
              ELSE <<>>)
    ELSE <<>>

\* The waiting-reason and OOM checks of DetectFailedPods for one container.
containerStateIssues(pod, cs) ==
    LET waiting ==
            IF cs.Waiting # Nil
            THEN LET reason == cs.Waiting[1].Reason
                 IN  IF reason = "ImagePullBackOff" \/ reason = "ErrImagePull"
                     THEN <<Issue(IssueTypeFailedPod, SeverityCritical,
                                  "Pod '" \o pod.Name \o "' cannot pull image: "
                                      \o cs.Waiting[1].Message,
                                  <<pod.Name>>,
                                  "Verify image name and registry credentials. Check network connectivity to image registry.")>>
                     ELSE IF reason = "CrashLoopBackOff"
                     THEN <<Issue(IssueTypeFailedPod, SeverityCritical,
                                  "Pod '" \o pod.Name \o "' is crash looping",
                                  <<pod.Name>>,
                                  "Check container logs for crash details. The scanner may be encountering a runtime error.")>>
                     ELSE <<>>
            ELSE <<>>
        oom ==
            IF cs.LastTerminated # Nil /\ cs.LastTerminated[1].Reason = "OOMKilled"
            THEN <<Issue(IssueTypeOOM, SeverityCritical,
                         "Container '" \o cs.Name \o "' in pod '" \o pod.Name
                             \o "' was killed due to out of memory",
                         <<pod.Name>>,
                         "Increase memory limits for scanner pods in ScanSetting. The scan requires more memory than allocated.")>>
            ELSE <<>>
    IN  waiting \o oom

\* containerRestartIssues that reports a high restart count as Critical.
containerRestartIssues_Critical(pod, cs) ==
    IF cs.RestartCount > HighRestartCount
    THEN <<Issue(IssueTypeFailedPod, SeverityCritical,
                 "Container '" \o cs.Name \o "' in pod '" \o pod.Name
                     \o "' has restarted " \o ToString(cs.RestartCount) \o " times",
                 <<pod.Name>>,
                 "Investigate why the container is restarting. Check logs for errors.")>>
    ELSE <<>>

\* The high-restart check of DetectFailedPods for one container.
containerRestartIssues(pod, cs) ==
    IF cs.RestartCount > HighRestartCount
    THEN <<Issue(IssueTypeFailedPod, SeverityWarning,
                 "Container '" \o cs.Name \o "' in pod '" \o pod.Name
                     \o "' has restarted " \o ToString(cs.RestartCount) \o " times",
                 <<pod.Name>>,
                 "Investigate why the container is restarting. Check logs for errors.")>>
    ELSE <<>>

\* failedPodIssues with the restart loop nested in the container loop.
failedPodIssues_NestedRestartLoop(pod) ==
    LET failed ==
            IF pod.Phase = PodFailed
            THEN <<Issue(IssueTypeFailedPod, SeverityCritical,
                         "Scanner pod '" \o pod.Name \o "' failed with reason: " \o pod.Reason,
                         <<pod.Name>>,
                         "Check pod logs for error details. The scanner may have encountered an error during scan execution.")>>
            ELSE <<>>
        css == pod.ContainerStatuses
    IN  failed
        \o Flatten([i \in DOMAIN css |->
                containerStateIssues(pod, css[i])
                \o Flatten([j \in DOMAIN css |-> containerRestartIssues(pod, css[j])])])

\* failedPodIssues that looks at the containers only of a pod that is not
\* Failed.
failedPodIssues_ContainersOnlyIfNotFailed(pod) ==
    LET css == pod.ContainerStatuses
    IN  IF pod.Phase = PodFailed
        THEN <<Issue(IssueTypeFailedPod, SeverityCritical,
                     "Scanner pod '" \o pod.Name \o "' failed with reason: " \o pod.Reason,
                     <<pod.Name>>,
                     "Check pod logs for error details. The scanner may have encountered an error during scan execution.")>>
        ELSE Flatten([i \in DOMAIN css |-> containerStateIssues(pod, css[i])])
             \o Flatten([i \in DOMAIN css |-> containerRestartIssues(pod, css[i])])

\* The body of DetectFailedPods' loop for one pod.
failedPodIssues(pod) ==
    LET failed ==
            IF pod.Phase = PodFailed
            THEN <<Issue(IssueTypeFailedPod, SeverityCritical,
                         "Scanner pod '" \o pod.Name \o "' failed with reason: " \o pod.Reason,
                         <<pod.Name>>,
                         "Check pod logs for error details. The scanner may have encountered an error during scan execution.")>>
            ELSE <<>>
        css == pod.ContainerStatuses
    IN  failed
        \o Flatten([i \in DOMAIN css |-> containerStateIssues(pod, css[i])])
        \o Flatten([i \in DOMAIN css |-> containerRestartIssues(pod, css[i])])

DetectFailedPods(pods) ==
    Flatten([i \in DOMAIN pods |-> failedPodIssues(pods[i])])

\* resourceConstraintIssues without the test of the condition's status.
resourceConstraintIssues_AnyStatus(pod) ==
    IF pod.Phase = PodPending
    THEN Flatten([i \in DOMAIN pod.Conditions |->
            LET condition == pod.Conditions[i]
            IN  IF /\ condition.Type = PodScheduled
                   /\ \/ Contains(condition.Reason, "Insufficient")
                      \/ Contains(condition.Message, "Insufficient")
                THEN <<Issue(IssueTypeResourceConstraint, SeverityCritical,
                             "Pod '" \o pod.Name \o "' cannot be scheduled: "
                                 \o condition.Message,
                             <<pod.Name>>,
                             "Increase cluster resources or reduce scanner pod resource requests in ScanSetting.")>>
                ELSE <<>>])
    ELSE <<>>

\* The body of DetectResourceConstraints' loop for one pod.
resourceConstraintIssues(pod) ==
    IF pod.Phase = PodPending
    THEN Flatten([i \in DOMAIN pod.Conditions |->
            LET condition == pod.Conditions[i]
            IN  IF /\ condition.Type = PodScheduled
                   /\ condition.Status = ConditionFalse
                   /\ \/ Contains(condition.Reason, "Insufficient")
                      \/ Contains(condition.Message, "Insufficient")
                THEN <<Issue(IssueTypeResourceConstraint, SeverityCritical,
                             "Pod '" \o pod.Name \o "' cannot be scheduled: "
                                 \o condition.Message,
                             <<pod.Name>>,
                             "Increase cluster resources or reduce scanner pod resource requests in ScanSetting.")>>
                ELSE <<>>])
    ELSE <<>>

DetectResourceConstraints(pods) ==
    Flatten([i \in DOMAIN pods |-> resourceConstraintIssues(pods[i])])

permissionKeywords ==
    <<"Forbidden", "Unauthorized", "denied", "insufficient permissions",
      "cannot create", "cannot get", "cannot list">>

\* permissionIssue that leaves Resources unset.
permissionIssue_NoResources(scanName, event) ==
    Issue(IssueTypePermission, SeverityCritical,
          "Permission issue in scan '" \o scanName \o "': " \o event.Message,
          <<>>,
          "Check ServiceAccount permissions and RBAC configuration. The compliance operator may not have sufficient permissions.")

permissionIssue(scanName, event) ==
    Issue(IssueTypePermission, SeverityCritical,
          "Permission issue in scan '" \o scanName \o "': " \o event.Message,
          <<scanName, event.InvolvedObject>>,
          "Check ServiceAccount permissions and RBAC configuration. The compliance operator may not have sufficient permissions.")

\* The keyword loop without its break: one issue per keyword found.
RECURSIVE permissionIssuesFrom_NoBreak(_, _, _)
permissionIssuesFrom_NoBreak(scanName, event, k) ==
    IF k > Len(permissionKeywords) THEN <<>>
    ELSE (IF Contains(event.Message, permissionKeywords[k])
          THEN <<permissionIssue(scanName, event)>> ELSE <<>>)
         \o permissionIssuesFrom_NoBreak(scanName, event, k + 1)

\* The inner keyword loop with its break: one issue at the first keyword found.
RECURSIVE permissionIssuesFrom(_, _, _)
permissionIssuesFrom(scanName, event, k) ==
    IF k > Len(permissionKeywords) THEN <<>>
    ELSE IF Contains(event.Message, permissionKeywords[k])
    THEN <<permissionIssue(scanName, event)>>
    ELSE permissionIssuesFrom(scanName, event, k + 1)

\* The body of DetectPermissionIssuesForScan's loop for one event.
eventPermissionIssues(scanName, event) ==
    IF event.Type = EventTypeWarning
    THEN permissionIssuesFrom(scanName, event, 1)
    ELSE <<>>

\* Returns [err, issues].
DetectPermissionIssuesForScan(cluster, scanName) ==
    LET events == GetEvents(cluster, "ComplianceScan", scanName)
    IN  IF events.err THEN [err |-> TRUE, issues |-> <<>>]
        ELSE [err |-> FALSE,
              issues |-> Flatten([i \in DOMAIN events.items |->
                            eventPermissionIssues(scanName, events.items[i])])]

\* The body of AnalyzeAll's per-scan loop: the issues appended for one scan.
\* A failed scanner-pod listing skips the rest of the iteration (continue).
scanPodIssues(cluster, scan) ==
    LET pods == GetScannerPods(cluster, scan.Name)
        permission == DetectPermissionIssuesForScan(cluster, scan.Name)
    IN  IF pods.err THEN <<>>
        ELSE DetectFailedPods(pods.items)
             \o DetectResourceConstraints(pods.items)
             \o (IF ~permission.err THEN permission.issues ELSE <<>>)

\* scanPodReads that lists the scanner pods a second time after a failure.
scanPodReads_RetryPods(cluster, scan) ==
    IF GetScannerPods(cluster, scan.Name).err
    THEN <<<<"GetScannerPods", scan.Name>>, <<"GetScannerPods", scan.Name>>>>
    ELSE <<<<"GetScannerPods", scan.Name>>, <<"GetEvents", scan.Name>>>>

\* The Accessor reads of one iteration of AnalyzeAll's per-scan loop.
scanPodReads(cluster, scan) ==
    IF GetScannerPods(cluster, scan.Name).err
    THEN <<<<"GetScannerPods", scan.Name>>>>
    ELSE <<<<"GetScannerPods", scan.Name>>, <<"GetEvents", scan.Name>>>>

\* collectedIssues whose per-scan loop stops at the first failed scanner-pod
\* listing (break for continue).
collectedIssues_StopAtFailure(cluster, scans, now) ==
    LET failing == {i \in DOMAIN scans : GetScannerPods(cluster, scans[i].Name).err}
        last == IF failing = {} THEN Len(scans)
                ELSE (CHOOSE i \in failing : \A j \in failing : i <= j) - 1
    IN  DetectStuckScans(scans, now)
        \o Flatten([i \in 1..last |-> scanPodIssues(cluster, scans[i])])

\* result.Issues before the separation by severity.
collectedIssues(cluster, scans, now) ==
    DetectStuckScans(scans, now)
    \o Flatten([i \in DOMAIN scans |-> scanPodIssues(cluster, scans[i])])

\* separateBySeverity with the two buckets swapped.
RECURSIVE separateBySeverity_Swapped(_, _, _)
separateBySeverity_Swapped(issues, i, acc) ==
    IF i > Len(issues) THEN acc
    ELSE separateBySeverity_Swapped(issues, i + 1,
            IF issues[i].Severity = SeverityCritical
            THEN [acc EXCEPT !.warnings = Append(@, issues[i])]
            ELSE [acc EXCEPT !.criticalIssues = Append(@, issues[i])])

\* The loop that separates issues by severity.
RECURSIVE separateBySeverity(_, _, _)
separateBySeverity(issues, i, acc) ==
    IF i > Len(issues) THEN acc
    ELSE separateBySeverity(issues, i + 1,
            IF issues[i].Severity = SeverityCritical
            THEN [acc EXCEPT !.criticalIssues = Append(@, issues[i])]
            ELSE [acc EXCEPT !.warnings = Append(@, issues[i])])

NoIssuesSuggestion ==
    "No issues detected. Compliance operator appears to be functioning normally."

\* AnalyzeAll that adds its suggestion whenever there is no Critical issue.
AnalyzeAll_SuggestionIgnoresWarnings(cluster, now) ==
    LET scans == GetComplianceScans(cluster, "")
        r1 == <<<<"GetComplianceScans", "">>>>
        all == collectedIssues(cluster, scans.items, now)
        sep == separateBySeverity(all, 1, [criticalIssues |-> <<>>, warnings |-> <<>>])
    IN  IF scans.err
        THEN [err |-> "failed to get scans", result |-> Nil, reads |-> r1]
        ELSE [err |-> "",
              result |-> Some([Issues |-> sep.criticalIssues,
                               Warnings |-> sep.warnings,
                               Suggestions |->
                                   IF Len(sep.criticalIssues) = 0
                                   THEN <<NoIssuesSuggestion>> ELSE <<>>]),
              reads |-> r1 \o Flatten([i \in DOMAIN scans.items |->
                                          scanPodReads(cluster, scans.items[i])])]

\* Returns [err, result, reads]; result is Nil when err # "".
AnalyzeAll(cluster, now) ==
    LET scans == GetComplianceScans(cluster, "")
        r1 == <<<<"GetComplianceScans", "">>>>
        all == collectedIssues(cluster, scans.items, now)
        sep == separateBySeverity(all, 1, [criticalIssues |-> <<>>, warnings |-> <<>>])
    IN  IF scans.err
        THEN [err |-> "failed to get scans", result |-> Nil, reads |-> r1]
        ELSE [err |-> "",
              result |-> Some([Issues |-> sep.criticalIssues,
                               Warnings |-> sep.warnings,
                               Suggestions |->
                                   IF Len(sep.criticalIssues) = 0 /\ Len(sep.warnings) = 0
                                   THEN <<NoIssuesSuggestion>> ELSE <<>>]),
              reads |-> r1 \o Flatten([i \in DOMAIN scans.items |->
                                          scanPodReads(cluster, scans.items[i])])]

AnalyzeScanFailure(scan) ==
    IF scan.Status.Result # ResultError /\ scan.Status.Result # ResultNonCompliant
    THEN <<>>
    ELSE (IF scan.Status.ErrorMessage # ""
          THEN <<Issue(IssueTypeFailedPod, SeverityCritical,
                       "Scan '" \o scan.Name \o "' failed: " \o scan.Status.ErrorMessage,
                       <<scan.Name>>,
                       "Review the error message and check scanner pod logs for more details.")>>
          ELSE <<>>)
         \o
         (IF scan.Status.Result = ResultNonCompliant
          THEN <<Issue(IssueTypeMisconfiguration, SeverityWarning,
                       "Scan '" \o scan.Name \o "' found compliance violations",
                       <<scan.Name>>,
                       "Review failed checks and apply available remediations. Some checks may require manual remediation.")>>
          ELSE <<>>)

\* ---------------------------------------------------------------------------
\* mcp/types.go: the status overview.  The text is kept as its sequence of
\* lines; the pictographs of the source's literals are left out.
\* ---------------------------------------------------------------------------
\* The keys of a Go map in the order one range statement visits them: the
\* runtime picks the order, here given by mapOrder, a sequence of all keys.
RangeOrder(keys, mapOrder) == SelectSeq(mapOrder, LAMBDA k : k \in keys)

\* readyIcon is written as the word it stands for.
operatorPodLine(pod) ==
    "  - " \o pod.Name \o ": " \o pod.Phase \o " "
        \o (IF pod.Ready THEN "ready" ELSE "not ready")
        \o " (Restarts: " \o ToString(pod.Restarts) \o ")"

operatorHealthLines(status) ==
    <<"## Operator Health", "",
      IF status.IsHealthy THEN "**Status:** Healthy" ELSE "**Status:** Unhealthy",
      "**Operator Pods:** " \o ToString(Len(status.OperatorPods))>>
    \o [i \in DOMAIN status.OperatorPods |-> operatorPodLine(status.OperatorPods[i])]
    \o (IF Len(status.Issues) > 0
        THEN <<"", "**Issues:**">>
             \o [i \in DOMAIN status.Issues |-> "  - " \o status.Issues[i]]
        ELSE <<>>)

\* resultCounts of the scan statuses of a suite: a map from result to count.
resultCountsOf(scanStatuses) ==
    [r \in {scanStatuses[i].Result : i \in DOMAIN scanStatuses} |->
        Cardinality({i \in DOMAIN scanStatuses : scanStatuses[i].Result = r})]

\* The sums of GetCheckCounts over the check results stored under keys.
RECURSIVE sumCheckCounts(_, _)
sumCheckCounts(checkResults, keys) ==
    IF keys = {} THEN NoCounts
    ELSE LET k == CHOOSE x \in keys : TRUE
             counts == GetCheckCounts(checkResults[k])
             rest == sumCheckCounts(checkResults, keys \ {k})
         IN  [Pass |-> rest.Pass + counts.Pass, Fail |-> rest.Fail + counts.Fail,
              Manual |-> rest.Manual + counts.Manual, Error |-> 0, Info |-> 0,
              Total |-> rest.Total + counts.Total]

\* A percentage printed with %.1f: rounded to the nearest tenth.
OneDecimal(num, den) ==
    LET tenths == (2 * 10 * num + den) \div (2 * den)
    IN  ToString(tenths \div 10) \o "." \o ToString(tenths % 10)

\* The lines written for one suite of suitesToShow.
suiteLines(data, suite, mapOrder) ==
    LET resultCounts == resultCountsOf(suite.Status.ScanStatuses)
        visited == RangeOrder(DOMAIN resultCounts, mapOrder)
        sums == sumCheckCounts(data.CheckResults,
                               (DOMAIN data.Scans) \cap (DOMAIN data.CheckResults))
        automatedChecks == sums.Pass + sums.Fail
    IN  <<"### " \o suite.Name, "",
          "**Phase:** " \o suite.Status.Phase,
          "**Result:** " \o suite.Status.Result>>
        \o (IF suite.Status.ErrorMessage # ""
            THEN <<"**Error:** " \o suite.Status.ErrorMessage>> ELSE <<>>)
        \o (IF Len(suite.Status.ScanStatuses) > 0
            THEN <<"", "**Scans:** " \o ToString(Len(suite.Status.ScanStatuses))>>
                 \o [i \in DOMAIN visited |->
                        "  - " \o visited[i] \o ": " \o ToString(resultCounts[visited[i]])]
                 \o (IF sums.Total > 0 /\ automatedChecks > 0
                     THEN <<"", "**Overall Compliance:** "
                                \o OneDecimal(sums.Pass * 100, automatedChecks)
                                \o "% (" \o ToString(sums.Pass) \o "/"
                                \o ToString(automatedChecks) \o " checks passed)">>
                     ELSE <<>>)
            ELSE <<>>)
        \o <<"">>

summaryLines(data) ==
    LET sums == sumCheckCounts(data.CheckResults, DOMAIN data.CheckResults)
    IN  <<"## Summary", "",
          "- **Total Suites:** " \o ToString(Len(data.Suites)),
          "- **Total Scans:** " \o ToString(Cardinality(DOMAIN data.Scans)),
          "- **Total Checks:** " \o ToString(sums.Total),
          "  - Passed: " \o ToString(sums.Pass),
          "  - Failed: " \o ToString(sums.Fail),
          "  - Manual: " \o ToString(sums.Manual)>>

\* The suites the overview shows for args.SuiteName (Nil for a nil pointer):
\* the first suite with the name, or every suite.
suitesToShow(suites, suiteName) ==
    IF suiteName # Nil /\ suiteName[1] # ""
    THEN LET named == SelectSeq(suites, LAMBDA s : s.Name = suiteName[1])
         IN  IF named = <<>> THEN <<>> ELSE <<named[1]>>
    ELSE suites

\* Returns [err, output]: output is the text's lines, Nil when err # "".
ComplianceStatusOverview(cluster, suiteName, mapOrder) ==
    LET collected == CollectAllData(cluster)
        data == collected.data[1]
        head == <<"# Compliance Operator Status Overview", "">>
                \o operatorHealthLines(data.OperatorStatus)
                \o <<"", "## Compliance Suites", "">>
        shown == suitesToShow(data.Suites, suiteName)
    IN  IF collected.err # ""
        THEN [err |-> "failed to collect data: " \o collected.err, output |-> Nil]
        ELSE IF Len(data.Suites) = 0
        THEN [err |-> "",
              output |-> Some(head \o <<"No compliance suites found.">>
                              \o summaryLines(data))]
        ELSE IF suiteName # Nil /\ suiteName[1] # "" /\ Len(shown) = 0
        THEN [err |-> "suite '" \o suiteName[1] \o "' not found", output |-> Nil]
        ELSE [err |-> "",
              output |-> Some(head
                              \o Flatten([i \in DOMAIN shown |->
                                            suiteLines(data, shown[i], mapOrder)])
                              \o summaryLines(data))]

\* ---------------------------------------------------------------------------
\* The cluster states and arguments the calls are checked on
\* ---------------------------------------------------------------------------
ScanNamePool == <<"scan-a", "scan-b", "scan-c", "scan-d">>

ScanNames == {ScanNamePool[i] : i \in 1..MaxScans}

PodNamePool == <<"pod-1", "pod-2", "pod-3", "pod-4">>

ContainerNamePool == <<"scanner", "log-collector", "api-checker", "init">>

\* Wall-clock times of a call, in seconds.
Nows == {100000, 200000}

\* Wall-clock times of a bulk pass.
AnalysisTimes == {100000}

\* Ages of a start timestamp: at and just over each threshold, and the 29 and
\* 31 minutes of the stuck-scan examples.
Ages == {600, 601, 1740, 1800, 1801, 1860}

StartTimestamps(now) == {Nil} \cup {Some(now - a) : a \in Ages}

\* -- collector --
SuiteObjects ==
    {[name |-> "suite-a", hasStatus |-> TRUE, phase |-> PhaseDone,
      result |-> ResultNonCompliant, errorMessage |-> ""]}

SuiteLists == {<<>>} \cup {<<o>> : o \in SuiteObjects}

ScanObject(name) ==
    [name |-> name, suite |-> "suite-a", hasStatus |-> TRUE, phase |-> PhaseDone,
     result |-> ResultCompliant, errorMessage |-> "", startTimestamp |-> Nil]

CheckObject(name, status) == [name |-> name, status |-> status]

RemediationObject(name, apply) == [name |-> name, apply |-> apply]

\* What one per-scan list call answers: an error or the listed objects.
CheckAnswers ==
    {Failed(<<>>), Ok(<<>>),
     Ok(<<CheckObject("check-1", CheckPass), CheckObject("check-2", CheckFail)>>)}

RemediationAnswers ==
    {Failed(<<>>), Ok(<<>>), Ok(<<RemediationObject("rem-1", TRUE)>>)}

Pod(name, phase, reason, conditions, containerStatuses) ==
    [Name |-> name, Phase |-> phase, Reason |-> reason, Conditions |-> conditions,
     ContainerStatuses |-> containerStatuses]

Condition(type, status, reason, message) ==
    [Type |-> type, Status |-> status, Reason |-> reason, Message |-> message]

ContainerStatus(name, waiting, lastTerminated, restartCount) ==
    [Name |-> name, Waiting |-> waiting, LastTerminated |-> lastTerminated,
     RestartCount |-> restartCount]

\* Operator pods: every phase/readiness/restart combination below.
OperatorPhases == {PodRunning, PodPending}

OperatorConditions ==
    {<<>>,
     <<Condition(PodReady, ConditionTrue, "", "")>>,
     <<Condition(PodReady, ConditionFalse, "ContainersNotReady", "")>>,
     <<Condition(PodScheduled, ConditionTrue, "", ""),
       Condition(PodReady, ConditionTrue, "", "")>>}

\* Restart counts of the containers of an operator pod.
OperatorRestarts == {<<>>, <<0>>, <<6>>, <<3, 3>>, <<0, 5>>}

OperatorContainers(restarts) ==
    [i \in DOMAIN restarts |-> ContainerStatus(ContainerNamePool[i], Nil, Nil, restarts[i])]

OperatorPodShapes ==
    {[phase |-> ph, conditions |-> c, restarts |-> r] :
        ph \in OperatorPhases, c \in OperatorConditions, r \in OperatorRestarts}

\* A pod list names its pods by position: pod names are unique in a namespace.
OperatorPodList(shapes) ==
    [i \in DOMAIN shapes |->
        Pod(PodNamePool[i], shapes[i].phase, "", shapes[i].conditions,
            OperatorContainers(shapes[i].restarts))]

OperatorPodLists == {OperatorPodList(sh) : sh \in SeqsUpTo(OperatorPodShapes, MaxPods)}

HealthyOperatorPod ==
    [phase |-> PodRunning, conditions |-> <<Condition(PodReady, ConditionTrue, "", "")>>,
     restarts |-> <<0>>]

UnreadyOperatorPod ==
    [phase |-> PodPending, conditions |-> <<>>, restarts |-> <<6>>]

\* The operator pod listings CollectAllData is checked on.
SnapshotOperatorPodLists ==
    {OperatorPodList(sh) : sh \in {<<>>, <<HealthyOperatorPod>>,
                                   <<HealthyOperatorPod, UnreadyOperatorPod>>}}

\* A cluster as CollectAllData reads it: the listed scans in listing order and,
\* per scan, what its check-result and remediation listings answer.
CollectorCluster(suitesErr, suites, scansErr, names, checks, rems, podsErr, pods) ==
    [suitesErr |-> suitesErr,
     suites |-> suites,
     scansErr |-> scansErr,
     scans |-> [i \in DOMAIN names |-> ScanObject(names[i])],
     checkErr |-> {n \in Range(names) : checks[n].err},
     checks |-> [n \in {m \in Range(names) : ~checks[m].err} |-> checks[n].items],
     remErr |-> {n \in Range(names) : rems[n].err},
     rems |-> [n \in {m \in Range(names) : ~rems[m].err} |-> rems[n].items],
     operatorPodsErr |-> podsErr,
     operatorPods |-> pods]

\* Clusters for CollectSuiteData: the stored suites, and per stored scan its
\* suite-owner label ("" for a scan without the label) and which of its two
\* per-scan listings fail.
SuiteNames == {"suite-a", "suite-b"}

SuiteObject(name) ==
    [name |-> name, hasStatus |-> TRUE, phase |-> PhaseDone,
     result |-> ResultNonCompliant, errorMessage |-> ""]

StoredSuiteLists ==
    {<<>>, <<SuiteObject("suite-a")>>, <<SuiteObject("suite-a"), SuiteObject("suite-b")>>}

SuiteScanShapes ==
    [suite : SuiteNames \cup {""}, checkErr : BOOLEAN, remErr : BOOLEAN]

\* Which listing of the API server fails: none, the suite's or the scans'.
SuiteFailures == {"none", "suite", "scans"}

SuiteCluster(failure, suites, shapes) ==
    LET named == {ScanNamePool[i] : i \in DOMAIN shapes}
        shapeOf(n) == shapes[CHOOSE i \in DOMAIN shapes : ScanNamePool[i] = n]
    IN  [suitesErr |-> failure = "suite",
         suites |-> suites,
         scansErr |-> failure = "scans",
         scans |-> [i \in DOMAIN shapes |->
                      [ScanObject(ScanNamePool[i]) EXCEPT !.suite = shapes[i].suite]],
         checkErr |-> {n \in named : shapeOf(n).checkErr},
         checks |-> [n \in {m \in named : ~shapeOf(m).checkErr} |->
                       <<CheckObject(n \o "-check-1", CheckPass),
                         CheckObject(n \o "-check-2", CheckFail)>>],
         remErr |-> {n \in named : shapeOf(n).remErr},
         rems |-> [n \in {m \in named : ~shapeOf(m).remErr} |->
                     <<RemediationObject(n \o "-rem-1", TRUE)>>]]

OperatorCluster(podsErr, pods) == [operatorPodsErr |-> podsErr, operatorPods |-> pods]

\* Clusters for the status overview: stored suites with the scan statuses
\* their status holds, scans with their check results, operator pods.
ScanStatus(name, result) == [name |-> name, phase |-> PhaseDone, result |-> result]

OverviewSuiteObject(name, result, scanStatuses) ==
    [name |-> name, hasStatus |-> TRUE, phase |-> PhaseDone, result |-> result,
     errorMessage |-> "", scanStatuses |-> scanStatuses]

OverviewSuiteLists ==
    {<<>>,
     <<OverviewSuiteObject("suite-a", ResultNonCompliant,
                           <<ScanStatus("scan-a", ResultCompliant),
                             ScanStatus("scan-b", ResultNonCompliant)>>)>>,
     <<OverviewSuiteObject("suite-a", ResultNonCompliant,
                           <<ScanStatus("scan-a", ResultCompliant),
                             ScanStatus("scan-b", ResultNonCompliant)>>),
       OverviewSuiteObject("suite-b", ResultCompliant, <<>>)>>}

\* args.SuiteName: a nil pointer, the empty string, a stored and an unknown name.
OverviewSuiteNames == {Nil, Some(""), Some("suite-a"), Some("suite-c")}

\* The orders in which a range statement can visit a map keyed by result.
ResultMapOrders ==
    {<<ResultCompliant, ResultNonCompliant>>, <<ResultNonCompliant, ResultCompliant>>}

\* Which fatal listing of CollectAllData fails.
OverviewFailures == {"none", "suites", "scans", "operatorPods"}

\* -- analyzer --
\* Typed scans, as DetectStuckScans and AnalyzeScanFailure take them.
Scan(name, phase, result, errorMessage, startTimestamp) ==
    [Name |-> name, Labels |-> "suite-a",
     Status |-> [Phase |-> phase, Result |-> result, ErrorMessage |-> errorMessage,
                 StartTimestamp |-> startTimestamp]]

StuckPhases == {PhaseLaunching, PhaseRunning, PhaseDone}

StuckResults ==
    {[result |-> ResultCompliant, errorMessage |-> ""],
     [result |-> ResultError, errorMessage |-> "content missing"]}

StuckScanShapes(now) ==
    {[phase |-> ph, outcome |-> o, start |-> t] :
        ph \in StuckPhases, o \in StuckResults, t \in StartTimestamps(now)}

ScanList(shapes) ==
    [i \in DOMAIN shapes |->
        Scan(ScanNamePool[i], shapes[i].phase, shapes[i].outcome.result,
             shapes[i].outcome.errorMessage, shapes[i].start)]

ScanLists(now) == {ScanList(sh) : sh \in SeqsUpTo(StuckScanShapes(now), MaxScans)}

AllResults ==
    {"", ResultNotAvailable, ResultCompliant, ResultNonCompliant, ResultError,
     ResultInconsistent, ResultNotApplicable}

FailureScans ==
    {Scan(n, ph, r, m, Nil) :
        n \in ScanNames, ph \in {PhaseRunning, PhaseDone}, r \in AllResults,
        m \in {"", "content missing"}}

\* Scanner pods for DetectFailedPods: every container state below.
WaitingStates ==
    {Nil,
     Some([Reason |-> "ImagePullBackOff", Message |-> "Back-off pulling image"]),
     Some([Reason |-> "ErrImagePull", Message |-> "pull access denied"]),
     Some([Reason |-> "CrashLoopBackOff", Message |-> "back-off restarting"]),
     Some([Reason |-> "ContainerCreating", Message |-> ""])}

TerminatedStates ==
    {Nil, Some([Reason |-> "OOMKilled"]), Some([Reason |-> "Error"])}

RestartCounts == {5, 6}

ContainerShapes ==
    {[waiting |-> w, lastTerminated |-> t, restartCount |-> r] :
        w \in WaitingStates, t \in TerminatedStates, r \in RestartCounts}

Containers(shapes) ==
    [i \in DOMAIN shapes |->
        ContainerStatus(ContainerNamePool[i], shapes[i].waiting,
                        shapes[i].lastTerminated, shapes[i].restartCount)]

ContainerLists == {Containers(sh) : sh \in SeqsUpTo(ContainerShapes, MaxContainers)}

ScannerPhases ==
    {[phase |-> PodRunning, reason |-> ""], [phase |-> PodFailed, reason |-> "Evicted"]}

\* One pod with any containers, or several pods of the simple shapes.
SimpleContainerLists ==
    {Containers(sh) : sh \in
        {<<>>,
         <<[waiting |-> Some([Reason |-> "CrashLoopBackOff", Message |-> "back-off restarting"]),
            lastTerminated |-> Some([Reason |-> "OOMKilled"]), restartCount |-> 6]>>}}

FailedPodLists ==
    {<<Pod(PodNamePool[1], ph.phase, ph.reason, <<>>, cs)>> :
        ph \in ScannerPhases, cs \in ContainerLists}
    \cup
    {[i \in DOMAIN sh |-> Pod(PodNamePool[i], sh[i].ph.phase, sh[i].ph.reason, <<>>, sh[i].cs)] :
        sh \in SeqsUpTo({[ph |-> ph, cs |-> cs] :
                            ph \in ScannerPhases, cs \in SimpleContainerLists}, MaxPods)}

\* Scanner pods for DetectResourceConstraints: every condition list below.
\* The function takes any pod, so a condition type may repeat here.
ConditionShapes ==
    {Condition(PodScheduled, ConditionFalse, "Unschedulable",
               "0/3 nodes are available: 3 Insufficient memory."),
     Condition(PodScheduled, ConditionFalse, "InsufficientResources", ""),
     Condition(PodScheduled, ConditionFalse, "Unschedulable", "insufficient cpu"),
     Condition(PodScheduled, ConditionTrue, "", "Insufficient memory"),
     Condition(PodReady, ConditionFalse, "Insufficient", "Insufficient")}

MaxConditions == 2

ConstraintPodLists ==
    {<<Pod(PodNamePool[1], ph, "", cs, <<>>)>> :
        ph \in {PodPending, PodRunning}, cs \in SeqsUpTo(ConditionShapes, MaxConditions)}
    \cup
    {[i \in DOMAIN sh |-> Pod(PodNamePool[i], sh[i], "",
                              <<Condition(PodScheduled, ConditionFalse, "Unschedulable",
                                          "0/3 nodes are available: 3 Insufficient memory.")>>,
                              <<>>)] :
        sh \in SeqsUpTo({PodPending, PodRunning}, MaxPods)}

\* Events of a scan: the field selector of GetEvents lists only events whose
\* involved object is the scan.
EventMessages ==
    {"Forbidden: cannot list pods",
     "pods is forbidden",
     "access denied: insufficient permissions",
     "Scan completed"}

Event(type, message, involvedObject) ==
    [Type |-> type, Message |-> message, InvolvedObject |-> involvedObject]

EventLists(scanName) ==
    SeqsUpTo({Event(t, m, scanName) :
                 t \in {EventTypeWarning, EventTypeNormal}, m \in EventMessages},
             MaxEvents)

EventsCluster(scanName, answer) ==
    [eventsErr |-> IF answer.err THEN {scanName} ELSE {},
     events |-> IF answer.err THEN EmptyMap ELSE MapPut(EmptyMap, scanName, answer.items)]

\* Clusters for AnalyzeAll: per scan, the stored scan object, what the scanner
\* pod listing answers and what the event listing answers.  Pod names are
\* unique in the namespace, and a pod's condition types do not repeat.
AnalyzedScanShapes(now) ==
    {[hasStatus |-> TRUE, phase |-> PhaseRunning, result |-> ResultNotAvailable,
      errorMessage |-> "", startTimestamp |-> Some(now - 1860)],
     [hasStatus |-> TRUE, phase |-> PhaseDone, result |-> ResultError,
      errorMessage |-> "content missing", startTimestamp |-> Some(now - 1860)]}

CrashLooping ==
    [waiting |-> Some([Reason |-> "CrashLoopBackOff", Message |-> "back-off restarting"]),
     lastTerminated |-> Nil, restartCount |-> 2]

Restarting == [waiting |-> Nil, lastTerminated |-> Nil, restartCount |-> 6]

OOMKilledPulling ==
    [waiting |-> Some([Reason |-> "ImagePullBackOff", Message |-> "Back-off pulling image"]),
     lastTerminated |-> Some([Reason |-> "OOMKilled"]), restartCount |-> 6]

Unschedulable ==
    Condition(PodScheduled, ConditionFalse, "Unschedulable",
              "0/3 nodes are available: 3 Insufficient memory.")

PodShape(phase, reason, conditions, containers) ==
    [phase |-> phase, reason |-> reason, conditions |-> conditions,
     containers |-> containers]

\* What the scanner pod listing of a scan answers.
ScannerPodAnswers ==
    {Failed(<<>>),
     Ok(<<>>),
     Ok(<<PodShape(PodRunning, "", <<>>, <<CrashLooping, CrashLooping>>)>>),
     Ok(<<PodShape(PodRunning, "", <<>>, <<Restarting>>)>>),
     Ok(<<PodShape(PodFailed, "Error", <<>>, <<OOMKilledPulling, Restarting>>),
          PodShape(PodPending, "", <<Unschedulable>>, <<>>)>>)}

ScannerPods(scanName, shapes) ==
    [j \in DOMAIN shapes |->
        Pod(scanName \o "-" \o PodNamePool[j], shapes[j].phase, shapes[j].reason,
            shapes[j].conditions, Containers(shapes[j].containers))]

\* What the event listing of a scan answers.
EventAnswers ==
    {Failed(<<>>),
     Ok(<<>>),
     Ok(<<[type |-> EventTypeWarning, message |-> "Forbidden: cannot list pods"],
          [type |-> EventTypeNormal, message |-> "Forbidden: cannot list pods"],
          [type |-> EventTypeWarning, message |-> "access denied: insufficient permissions"]>>)}

ScanEvents(scanName, shapes) ==
    [j \in DOMAIN shapes |-> Event(shapes[j].type, shapes[j].message, scanName)]

AnalyzedShapes(now) ==
    [scan : AnalyzedScanShapes(now), pods : ScannerPodAnswers, events : EventAnswers]

IndexOf(name) == CHOOSE i \in DOMAIN ScanNamePool : ScanNamePool[i] = name

\* The cluster in which the i-th listed scan has shape shapes[i].
AnalyzerCluster(scansErr, shapes) ==
    [scansErr |-> scansErr,
     scans |-> [i \in DOMAIN shapes |->
                  [name |-> ScanNamePool[i], suite |-> "suite-a",
                   hasStatus |-> shapes[i].scan.hasStatus,
                   phase |-> shapes[i].scan.phase,
                   result |-> shapes[i].scan.result,
                   errorMessage |-> shapes[i].scan.errorMessage,
                   startTimestamp |-> shapes[i].scan.startTimestamp]],
     podsErr |-> {ScanNamePool[i] : i \in {j \in DOMAIN shapes : shapes[j].pods.err}},
     scannerPods |-> [n \in {ScanNamePool[i] : i \in {j \in DOMAIN shapes : ~shapes[j].pods.err}} |->
                        ScannerPods(n, shapes[IndexOf(n)].pods.items)],
     eventsErr |-> {ScanNamePool[i] : i \in {j \in DOMAIN shapes : shapes[j].events.err}},
     events |-> [n \in {ScanNamePool[i] : i \in {j \in DOMAIN shapes : ~shapes[j].events.err}} |->
                   ScanEvents(n, shapes[IndexOf(n)].events.items)]]

\* -- check counts --
MaxChecks == 3

MaxCount == 3

\* The status strings of a stored ComplianceCheckResult: the five the code
\* names, the two others the operator writes, and a missing status field.
StoredCheckStatuses ==
    {CheckPass, CheckFail, CheckManual, CheckError, CheckInfo,
     "NOT-APPLICABLE", "INCONSISTENT", ""}

CheckNamePool == <<"check-1", "check-2", "check-3", "check-4", "check-5">>

CheckObjectLists ==
    {[i \in DOMAIN sts |-> CheckObject(CheckNamePool[i], sts[i])] :
        sts \in SeqsUpTo(StoredCheckStatuses, MaxChecks)}

\* Every CheckCounts value with buckets up to MaxCount; the function takes any
\* value, so Total need not be the sum of the buckets.
CheckCountsValues ==
    [Pass : 0..MaxCount, Fail : 0..MaxCount, Manual : 0..MaxCount,
     Error : 0..MaxCount, Info : 0..MaxCount, Total : 0..(2 * MaxCount)]

\* ---------------------------------------------------------------------------
\* The calls
\* ---------------------------------------------------------------------------
Init == op = "idle" /\ arg = Nil /\ ret = Nil

Return == op # "idle" /\ op' = "idle" /\ arg' = Nil /\ ret' = Nil

CallCollectAllData ==
    /\ op = "idle"
    /\ \E suitesErr \in BOOLEAN, suites \in SuiteLists, scansErr \in BOOLEAN,
          names \in InjectiveSeqsUpTo(ScanNames, MaxScans),
          podsErr \in BOOLEAN, pods \in SnapshotOperatorPodLists :
         \E checks \in [Range(names) -> CheckAnswers],
            rems \in [Range(names) -> RemediationAnswers] :
            LET cluster == CollectorCluster(suitesErr, suites, scansErr, names,
                                            checks, rems, podsErr, pods)
            IN  /\ op' = "CollectAllData"
                /\ arg' = [cluster |-> cluster]
                /\ ret' = CollectAllData(cluster)

CallCollectSuiteData ==
    /\ op = "idle"
    /\ \E failure \in SuiteFailures, suites \in StoredSuiteLists,
          shapes \in SeqsUpTo(SuiteScanShapes, MaxScans), suiteName \in SuiteNames :
          LET cluster == SuiteCluster(failure, suites, shapes)
          IN  /\ op' = "CollectSuiteData"
              /\ arg' = [cluster |-> cluster, suiteName |-> suiteName]
              /\ ret' = CollectSuiteData(cluster, suiteName)

CallComplianceStatusOverview ==
    /\ op = "idle"
    /\ \E failure \in OverviewFailures, suites \in OverviewSuiteLists,
          n \in 0..MaxScans, pods \in SnapshotOperatorPodLists,
          suiteName \in OverviewSuiteNames, mapOrder \in ResultMapOrders :
         \E checks \in [{ScanNamePool[i] : i \in 1..n} -> CheckAnswers] :
            LET names == [i \in 1..n |-> ScanNamePool[i]]
                rems == [m \in {ScanNamePool[i] : i \in 1..n} |-> Ok(<<>>)]
                cluster == CollectorCluster(failure = "suites", suites,
                                            failure = "scans", names, checks, rems,
                                            failure = "operatorPods", pods)
            IN  /\ op' = "ComplianceStatusOverview"
                /\ arg' = [cluster |-> cluster, suiteName |-> suiteName,
                           mapOrder |-> mapOrder]
                /\ ret' = ComplianceStatusOverview(cluster, suiteName, mapOrder)

CallCollectOperatorStatus ==
    /\ op = "idle"
    /\ \E podsErr \in BOOLEAN, pods \in OperatorPodLists :
          LET cluster == OperatorCluster(podsErr, pods)
          IN  /\ op' = "collectOperatorStatus"
              /\ arg' = [cluster |-> cluster]
              /\ ret' = collectOperatorStatus(cluster)

CallAnalyzeAll ==
    /\ op = "idle"
    /\ \E now \in AnalysisTimes, scansErr \in BOOLEAN :
         \E shapes \in SeqsUpTo(AnalyzedShapes(now), MaxScans) :
            LET cluster == AnalyzerCluster(scansErr, shapes)
            IN  /\ op' = "AnalyzeAll"
                /\ arg' = [cluster |-> cluster, now |-> now]
                /\ ret' = AnalyzeAll(cluster, now)

CallDetectStuckScans ==
    /\ op = "idle"
    /\ \E now \in Nows :
         \E scans \in ScanLists(now) :
            /\ op' = "DetectStuckScans"
            /\ arg' = [scans |-> scans, now |-> now]
            /\ ret' = DetectStuckScans(scans, now)

CallDetectFailedPods ==
    /\ op = "idle"
    /\ \E pods \in FailedPodLists :
          /\ op' = "DetectFailedPods"
          /\ arg' = [pods |-> pods]
          /\ ret' = DetectFailedPods(pods)

CallDetectResourceConstraints ==
    /\ op = "idle"
    /\ \E pods \in ConstraintPodLists :
          /\ op' = "DetectResourceConstraints"
          /\ arg' = [pods |-> pods]
          /\ ret' = DetectResourceConstraints(pods)

CallDetectPermissionIssuesForScan ==
    /\ op = "idle"
    /\ \E scanName \in ScanNames :
         \E answer \in {Failed(<<>>)} \cup {Ok(es) : es \in EventLists(scanName)} :
            LET cluster == EventsCluster(scanName, answer)
            IN  /\ op' = "DetectPermissionIssuesForScan"
                /\ arg' = [cluster |-> cluster, scanName |-> scanName]
                /\ ret' = DetectPermissionIssuesForScan(cluster, scanName)

CallAnalyzeScanFailure ==
    /\ op = "idle"
    /\ \E scan \in FailureScans :
          /\ op' = "AnalyzeScanFailure"
          /\ arg' = [scan |-> scan]
          /\ ret' = AnalyzeScanFailure(scan)

CallGetCheckCounts ==
    /\ op = "idle"
    /\ \E objects \in CheckObjectLists :
          LET checkResults == MapSeq(unstructuredToCheckResult, objects)
          IN  /\ op' = "GetCheckCounts"
              /\ arg' = [objects |-> objects, checkResults |-> checkResults]
              /\ ret' = GetCheckCounts(checkResults)

CallCalculateCompliancePercentage ==
    /\ op = "idle"
    /\ \E counts \in CheckCountsValues :
          /\ op' = "CalculateCompliancePercentage"
          /\ arg' = [counts |-> counts]
          /\ ret' = CalculateCompliancePercentage(counts)

\* The Snapshot Collector
NextCollector ==
    CallCollectAllData \/ CallCollectSuiteData \/ CallCollectOperatorStatus \/ Return

SpecCollector == Init /\ [][NextCollector]_vars

\* The bulk pass of the Diagnosis Engine
NextAnalyzer == CallAnalyzeAll \/ Return

SpecAnalyzer == Init /\ [][NextAnalyzer]_vars

\* The detection rules of the Diagnosis Engine, called one by one
NextRules ==
    \/ CallDetectStuckScans
    \/ CallDetectFailedPods
    \/ CallDetectResourceConstraints
    \/ CallDetectPermissionIssuesForScan
    \/ CallAnalyzeScanFailure
    \/ Return

SpecRules == Init /\ [][NextRules]_vars

\* The summary functions over check results
NextCounts == CallGetCheckCounts \/ CallCalculateCompliancePercentage \/ Return

SpecCounts == Init /\ [][NextCounts]_vars

\* The three operations that read the cluster through the Accessor
NextOperations == CallCollectAllData \/ CallCollectSuiteData \/ CallAnalyzeAll \/ Return

SpecOperations == Init /\ [][NextOperations]_vars

\* The scan rules, called directly and within the bulk pass
NextScanRules == CallDetectStuckScans \/ CallAnalyzeAll \/ Return

SpecScanRules == Init /\ [][NextScanRules]_vars

\* The pod rules, called directly and within the bulk pass
NextPodRules == CallDetectFailedPods \/ CallAnalyzeAll \/ Return

SpecPodRules == Init /\ [][NextPodRules]_vars

\* Every rule that creates issues, and the bulk pass
NextIssues == NextRules \/ CallAnalyzeAll

SpecIssues == Init /\ [][NextIssues]_vars

\* The status overview tool
NextOverview == CallComplianceStatusOverview \/ Return

SpecOverview == Init /\ [][NextOverview]_vars

Next == NextCollector \/ NextAnalyzer \/ NextRules \/ NextCounts \/ NextOverview

Spec == Init /\ [][Next]_vars

\* ---------------------------------------------------------------------------
\* Properties
\* ---------------------------------------------------------------------------
Count(s, P(_)) == Cardinality({i \in DOMAIN s : P(s[i])})

ListedScanNames(cluster) == {cluster.scans[i].name : i \in DOMAIN cluster.scans}

\* The call was CollectAllData and none of its three fatal listings failed.
CollectedAll ==
    /\ op = "CollectAllData"
    /\ ~arg.cluster.suitesErr
    /\ ~arg.cluster.scansErr
    /\ ~arg.cluster.operatorPodsErr

\* C1: when the suite, scan and operator-pod listings succeed, CollectAllData
\* succeeds whatever per-scan fetch fails; every listed scan is in Scans; a scan
\* whose check-result (remediation) fetch failed is no key of CheckResults
\* (Remediations); every other scan has its own listed objects under its key.
C1_PartialFailureIsNotFatal ==
    CollectedAll =>
        /\ ret.err = ""
        /\ ret.data # Nil
        /\ LET data == ret.data[1]
               cluster == arg.cluster
           IN  /\ DOMAIN data.Scans = ListedScanNames(cluster)
               /\ \A n \in ListedScanNames(cluster) :
                    /\ data.Scans[n].Name = n
                    /\ n \in cluster.checkErr => n \notin DOMAIN data.CheckResults
                    /\ n \in cluster.remErr => n \notin DOMAIN data.Remediations
                    /\ n \notin cluster.checkErr =>
                          /\ n \in DOMAIN data.CheckResults
                          /\ Len(data.CheckResults[n]) = Len(cluster.checks[n])
                          /\ \A k \in DOMAIN cluster.checks[n] :
                                /\ data.CheckResults[n][k].Name = cluster.checks[n][k].name
                                /\ data.CheckResults[n][k].Status = cluster.checks[n][k].status
                    /\ n \notin cluster.remErr =>
                          /\ n \in DOMAIN data.Remediations
                          /\ Len(data.Remediations[n]) = Len(cluster.rems[n])
                          /\ \A k \in DOMAIN cluster.rems[n] :
                                data.Remediations[n][k].Name = cluster.rems[n][k].name

\* A successful collection in which one scan's check-result fetch failed, another
\* scan's remediation fetch failed, and a scan kept its non-empty check results.
C1_Witness ==
    /\ CollectedAll
    /\ ret.err = ""
    /\ \E n, m \in ListedScanNames(arg.cluster) :
          /\ n # m
          /\ n \in arg.cluster.checkErr
          /\ n \notin DOMAIN ret.data[1].CheckResults
          /\ n \in DOMAIN ret.data[1].Scans
          /\ m \in arg.cluster.remErr
          /\ m \notin DOMAIN ret.data[1].Remediations
          /\ m \in DOMAIN ret.data[1].CheckResults
          /\ Len(ret.data[1].CheckResults[m]) = 2

AllIssues == ret.result[1].Issues \o ret.result[1].Warnings

Analyzed == op = "AnalyzeAll" /\ ret.err = ""

\* C2: AnalyzeAll reports a Critical StuckScan issue for every cluster scan
\* whose phase is RUNNING and whose status.startTimestamp is more than 30
\* minutes before now.
C2_StoredStartTimestampReachesRule ==
    Analyzed =>
        \A i \in DOMAIN arg.cluster.scans :
            LET o == arg.cluster.scans[i]
            IN  (/\ o.hasStatus
                 /\ o.phase = "RUNNING"
                 /\ o.startTimestamp # Nil
                 /\ arg.now - o.startTimestamp[1] > 30 * 60)
                => \E k \in DOMAIN ret.result[1].Issues :
                      /\ ret.result[1].Issues[k].Type = "StuckScan"
                      /\ ret.result[1].Issues[k].Severity = "Critical"
                      /\ ret.result[1].Issues[k].Resources = <<o.name>>

\* The issues the rules derive in a pass, in the order they are appended.
RuleIssues ==
    collectedIssues(arg.cluster, GetComplianceScans(arg.cluster, "").items, arg.now)

\* C3: in every DiagnosisResult every issue of Issues is Critical, every issue
\* of Warnings is not Critical, and Issues and Warnings are exactly the
\* Critical and the non-Critical rule-derived issues, each in the rules' order.
C3_SeverityPartition ==
    Analyzed =>
        /\ \A k \in DOMAIN ret.result[1].Issues :
              ret.result[1].Issues[k].Severity = "Critical"
        /\ \A k \in DOMAIN ret.result[1].Warnings :
              ret.result[1].Warnings[k].Severity # "Critical"
        /\ ret.result[1].Issues = SelectSeq(RuleIssues, LAMBDA x : x.Severity = "Critical")
        /\ ret.result[1].Warnings = SelectSeq(RuleIssues, LAMBDA x : x.Severity # "Critical")
        /\ Len(ret.result[1].Issues) + Len(ret.result[1].Warnings) = Len(RuleIssues)

\* A pass whose rules derived a Warning between two Critical issues.
C3_Witness ==
    /\ Analyzed
    /\ Len(ret.result[1].Issues) >= 2
    /\ Len(ret.result[1].Warnings) >= 1
    /\ \E i, j, k \in DOMAIN RuleIssues :
          /\ i < j /\ j < k
          /\ RuleIssues[i].Severity = "Critical"
          /\ RuleIssues[j].Severity = "Warning"
          /\ RuleIssues[k].Severity = "Critical"

\* The StuckScan issues DetectStuckScans returned for the scan named name.
StuckIssuesFor(name) ==
    SelectSeq(ret, LAMBDA x : x.Type = "StuckScan" /\ x.Resources = <<name>>)

ShouldBeStuck(scan, now) ==
    /\ scan.Status.StartTimestamp # Nil
    /\ \/ /\ scan.Status.Phase = "RUNNING"
          /\ now - scan.Status.StartTimestamp[1] > 30 * 60
       \/ /\ scan.Status.Phase = "LAUNCHING"
          /\ now - scan.Status.StartTimestamp[1] > 10 * 60

\* C4: DetectStuckScans emits exactly one StuckScan issue, Critical, for a scan
\* that is RUNNING for more than 30 minutes or LAUNCHING for more than 10
\* minutes, and none for a scan at or below the threshold or without a start
\* timestamp, at every wall-clock time.
C4_StuckScanThresholds ==
    op = "DetectStuckScans" =>
        \A i \in DOMAIN arg.scans :
            LET found == StuckIssuesFor(arg.scans[i].Name)
            IN  /\ Len(found) = IF ShouldBeStuck(arg.scans[i], arg.now) THEN 1 ELSE 0
                /\ \A k \in DOMAIN found : found[k].Severity = "Critical"

\* A call with a scan RUNNING for 30 minutes and a second (one issue), and one
\* with a scan RUNNING for exactly 30 minutes next to one without a start
\* timestamp (no issue for either).
C4_Witness ==
    /\ op = "DetectStuckScans"
    /\ Len(arg.scans) = 2
    /\ \/ /\ arg.scans[1].Status.Phase = "RUNNING"
          /\ arg.scans[1].Status.StartTimestamp = Some(arg.now - 1801)
          /\ Len(StuckIssuesFor(arg.scans[1].Name)) = 1
          /\ arg.scans[2].Status.Phase = "LAUNCHING"
          /\ arg.scans[2].Status.StartTimestamp = Some(arg.now - 600)
          /\ Len(StuckIssuesFor(arg.scans[2].Name)) = 0
       \/ /\ arg.scans[1].Status.Phase = "RUNNING"
          /\ arg.scans[1].Status.StartTimestamp = Some(arg.now - 1800)
          /\ arg.scans[2].Status.Phase = "RUNNING"
          /\ arg.scans[2].Status.StartTimestamp = Nil
          /\ ret = <<>>

ClaimedKeywords ==
    {"Forbidden", "Unauthorized", "denied", "insufficient permissions",
     "cannot create", "cannot get", "cannot list"}

KeywordsIn(message) == {kw \in ClaimedKeywords : Contains(message, kw)}

ListedEvents == arg.cluster.events[arg.scanName]

PermissionEvents ==
    SelectSeq(ListedEvents,
              LAMBDA e : e.Type = "Warning" /\ KeywordsIn(e.Message) # {})

\* C5: DetectPermissionIssuesForScan returns exactly one issue per Warning
\* event whose message contains a keyword, in event order, each a Critical
\* Permission issue whose resources are the scan name and the event's involved
\* object name; Normal events and events without a keyword yield none.
C5_OneIssuePerPermissionEvent ==
    (op = "DetectPermissionIssuesForScan" /\ ~ret.err) =>
        /\ Len(ret.issues) = Len(PermissionEvents)
        /\ \A k \in DOMAIN ret.issues :
              /\ ret.issues[k].Type = "Permission"
              /\ ret.issues[k].Severity = "Critical"
              /\ ret.issues[k].Resources = <<arg.scanName, PermissionEvents[k].InvolvedObject>>
              /\ Contains(ret.issues[k].Description, PermissionEvents[k].Message)

\* A Warning event matching two keywords next to a Normal event with the same
\* message: one issue.
C5_Witness ==
    /\ op = "DetectPermissionIssuesForScan"
    /\ ~ret.err
    /\ Len(ListedEvents) = 2
    /\ ListedEvents[1].Type = "Warning"
    /\ Cardinality(KeywordsIn(ListedEvents[1].Message)) >= 2
    /\ ListedEvents[2].Type = "Normal"
    /\ ListedEvents[2].Message = ListedEvents[1].Message
    /\ Len(ret.issues) = 1

\* The scanner pods listed in a pass, over the scans whose listing succeeded.
ListedPods ==
    UNION {Range(arg.cluster.scannerPods[n]) : n \in DOMAIN arg.cluster.scannerPods}

\* The scans of a pass whose pod and event listings both succeeded.
ScansWithEvents == (DOMAIN arg.cluster.scannerPods) \cap (DOMAIN arg.cluster.events)

IssuesOfPod(pod, P(_)) == Count(AllIssues, LAMBDA x : x.Resources = <<pod.Name>> /\ P(x))

IssuesOfEvent(scanName, event) ==
    Count(AllIssues, LAMBDA x : /\ x.Type = "Permission"
                                /\ x.Resources = <<scanName, event.InvolvedObject>>
                                /\ x.Description = "Permission issue in scan '" \o scanName
                                                       \o "': " \o event.Message)

\* Events are told apart by their message: the listed events of a scan that
\* carry the message of e and could have raised the same issue.
EventsLike(scanName, e) ==
    Count(arg.cluster.events[scanName],
          LAMBDA f : f.Type = "Warning" /\ f.Message = e.Message)

\* C6 as stated: in a pass a scanner pod triggers at most one issue from
\* DetectFailedPods and at most one from DetectResourceConstraints, and an
\* event at most one from the permission rule.
C6_AtMostOneIssuePerPodAndRule ==
    Analyzed =>
        /\ \A pod \in ListedPods :
              /\ IssuesOfPod(pod, LAMBDA x : x.Type \in {"FailedPod", "OutOfMemory"}) <= 1
              /\ IssuesOfPod(pod, LAMBDA x : x.Type = "ResourceConstraint") <= 1
        /\ \A n \in ScansWithEvents :
              \A k \in DOMAIN arg.cluster.events[n] :
                  IssuesOfEvent(n, arg.cluster.events[n][k]) <= 1

\* C6 amended: in a pass an event triggers at most one permission issue and a
\* scanner pod at most one resource-constraint issue per PodScheduled condition
\* it carries; from DetectFailedPods a pod triggers at most one issue for its
\* Failed phase and, per container, at most one waiting-reason issue, one
\* OutOfMemory issue and one high-restart issue.
C6_IssuesPerPodAndRuleBounded ==
    Analyzed =>
        /\ \A pod \in ListedPods :
              LET c == Len(pod.ContainerStatuses)
              IN  /\ IssuesOfPod(pod, LAMBDA x : x.Type = "FailedPod" /\ x.Severity = "Critical")
                        <= (IF pod.Phase = "Failed" THEN 1 ELSE 0) + c
                  /\ IssuesOfPod(pod, LAMBDA x : x.Type = "OutOfMemory") <= c
                  /\ IssuesOfPod(pod, LAMBDA x : x.Type = "FailedPod" /\ x.Severity = "Warning")
                        <= c
                  /\ IssuesOfPod(pod, LAMBDA x : x.Type = "ResourceConstraint")
                        <= Count(pod.Conditions, LAMBDA cd : cd.Type = "PodScheduled")
        /\ \A n \in ScansWithEvents :
              \A k \in DOMAIN arg.cluster.events[n] :
                  IssuesOfEvent(n, arg.cluster.events[n][k])
                      <= EventsLike(n, arg.cluster.events[n][k])

\* A pass over a Failed pod with two containers that raised five issues from
\* DetectFailedPods, and over events that raised permission issues.
C6_Witness ==
    /\ Analyzed
    /\ \E pod \in ListedPods :
          /\ pod.Phase = "Failed"
          /\ Len(pod.ContainerStatuses) = 2
          /\ IssuesOfPod(pod, LAMBDA x : x.Type \in {"FailedPod", "OutOfMemory"}) = 5
    /\ \E pod \in ListedPods : IssuesOfPod(pod, LAMBDA x : x.Type = "ResourceConstraint") = 1
    /\ \E n \in ScansWithEvents :
          \E k \in DOMAIN arg.cluster.events[n] :
              IssuesOfEvent(n, arg.cluster.events[n][k]) = 1

SameIssue(x, y) ==
    /\ x.Type = y.Type
    /\ x.Severity = y.Severity
    /\ x.Description = y.Description
    /\ x.Resources = y.Resources

\* C7: Issues and Warnings together never contain two issues with identical
\* type, severity, description and affected resources.
C7_NoIdenticalIssues ==
    Analyzed =>
        \A i, j \in DOMAIN AllIssues : i # j => ~SameIssue(AllIssues[i], AllIssues[j])

CriticalQuoting(scan) ==
    {k \in DOMAIN ret :
        /\ ret[k].Severity = "Critical"
        /\ Contains(ret[k].Description, scan.Status.ErrorMessage)
        /\ ret[k].Resources = <<scan.Name>>}

\* C8: AnalyzeScanFailure returns a Critical issue quoting the scan's error
\* message exactly when the result is ERROR, a Warning Misconfiguration issue
\* exactly when the result is NON-COMPLIANT, and no issue for any other result.
C8_IssuesFollowTheResult ==
    op = "AnalyzeScanFailure" =>
        LET scan == arg.scan
        IN  /\ (scan.Status.Result = "ERROR") <=> (CriticalQuoting(scan) # {})
            /\ (\E k \in DOMAIN ret : ret[k].Severity = "Critical")
                  <=> (scan.Status.Result = "ERROR")
            /\ (scan.Status.Result = "NON-COMPLIANT")
                  <=> (\E k \in DOMAIN ret : /\ ret[k].Severity = "Warning"
                                             /\ ret[k].Type = "Misconfiguration")
            /\ scan.Status.Result \notin {"ERROR", "NON-COMPLIANT"} => ret = <<>>

\* An operator health summary was computed: by collectOperatorStatus itself or
\* inside a successful CollectAllData.
HealthChecked ==
    \/ op = "collectOperatorStatus" /\ ~arg.cluster.operatorPodsErr
    \/ CollectedAll

OperatorStatus ==
    IF op = "collectOperatorStatus" THEN ret.status ELSE ret.data[1].OperatorStatus

Succeeded == IF op = "collectOperatorStatus" THEN ~ret.err ELSE ret.err = ""

\* C9: when the operator pod listing returns zero pods the summary has
\* IsHealthy = false, exactly one issue string and no OperatorPods entry, and
\* the collection succeeds.
C9_NoOperatorPods ==
    (HealthChecked /\ Len(arg.cluster.operatorPods) = 0) =>
        /\ Succeeded
        /\ OperatorStatus.IsHealthy = FALSE
        /\ Len(OperatorStatus.Issues) = 1
        /\ Len(OperatorStatus.OperatorPods) = 0

\* A successful CollectAllData over a cluster with scans and no operator pod.
C9_Witness ==
    /\ CollectedAll
    /\ Len(arg.cluster.operatorPods) = 0
    /\ Len(arg.cluster.scans) > 0
    /\ ret.err = ""
    /\ ret.data[1].OperatorStatus.IsHealthy = FALSE
    /\ ret.data[1].OperatorStatus.Issues = <<"No compliance operator pods found">>

ReadyConditionTrue(pod) ==
    \E i \in DOMAIN pod.Conditions :
        pod.Conditions[i].Type = "Ready" /\ pod.Conditions[i].Status = "True"

RunningAndReady(pod) == pod.Phase = "Running" /\ ReadyConditionTrue(pod)

NeverRestarted(pod) ==
    \A i \in DOMAIN pod.ContainerStatuses : pod.ContainerStatuses[i].RestartCount = 0

\* C10: for a non-empty operator pod list IsHealthy is true exactly when every
\* pod is Running with a Ready condition that is True; every pod that is not
\* has an issue naming it; pods that are all Running, Ready and never
\* restarted give IsHealthy = true and no issue.
C10_HealthyIffAllRunningAndReady ==
    (HealthChecked /\ Len(arg.cluster.operatorPods) > 0) =>
        LET pods == arg.cluster.operatorPods
        IN  /\ OperatorStatus.IsHealthy <=> \A i \in DOMAIN pods : RunningAndReady(pods[i])
            /\ \A i \in DOMAIN pods :
                  ~RunningAndReady(pods[i]) =>
                      \E k \in DOMAIN OperatorStatus.Issues :
                          Contains(OperatorStatus.Issues[k], pods[i].Name)
            /\ (\A i \in DOMAIN pods : RunningAndReady(pods[i]) /\ NeverRestarted(pods[i]))
                  => OperatorStatus.IsHealthy /\ OperatorStatus.Issues = <<>>

\* A listing whose first pod is Running, Ready and never restarted and whose
\* second pod is Running without a Ready condition: unhealthy, with an issue
\* naming the second pod and none naming the first.
C10_Witness ==
    /\ op = "collectOperatorStatus"
    /\ ~arg.cluster.operatorPodsErr
    /\ Len(arg.cluster.operatorPods) = 2
    /\ RunningAndReady(arg.cluster.operatorPods[1])
    /\ NeverRestarted(arg.cluster.operatorPods[1])
    /\ arg.cluster.operatorPods[2].Phase = "Running"
    /\ arg.cluster.operatorPods[2].Conditions = <<>>
    /\ ret.status.IsHealthy = FALSE
    /\ ret.status.Issues = <<"Pod " \o arg.cluster.operatorPods[2].Name \o " is not ready">>


\* The restart issues the health summary holds for a pod.
RestartIssuesOf(pod) ==
    Count(OperatorStatus.Issues,
          LAMBDA s : Contains(s, "Pod " \o pod.Name \o " has restarted "))

RestartTotal(pod) ==
    SumSeq([i \in DOMAIN pod.ContainerStatuses |-> pod.ContainerStatuses[i].RestartCount])

\* C11 as stated: the health summary holds a restart issue for a pod exactly
\* when one of its containers has a restart count above 5, and pods that are
\* all Running and Ready leave IsHealthy true whatever their restart issues.
C11_RestartIssueIffContainerOverLimit ==
    (HealthChecked /\ Len(arg.cluster.operatorPods) > 0) =>
        LET pods == arg.cluster.operatorPods
        IN  /\ \A i \in DOMAIN pods :
                  (RestartIssuesOf(pods[i]) > 0)
                      <=> \E c \in DOMAIN pods[i].ContainerStatuses :
                              pods[i].ContainerStatuses[c].RestartCount > 5
            /\ (\A i \in DOMAIN pods : RunningAndReady(pods[i])) => OperatorStatus.IsHealthy

\* C11 amended: the health summary holds exactly one restart issue for a pod
\* whose containers' restart counts add up to more than 5, quoting that total,
\* and none for any other pod; pods that are all Running and Ready leave
\* IsHealthy true and the summary then holds nothing but restart issues.
C11_RestartIssueIffPodTotalOverLimit ==
    (HealthChecked /\ Len(arg.cluster.operatorPods) > 0) =>
        LET pods == arg.cluster.operatorPods
        IN  /\ \A i \in DOMAIN pods :
                  /\ RestartIssuesOf(pods[i]) = IF RestartTotal(pods[i]) > 5 THEN 1 ELSE 0
                  /\ RestartTotal(pods[i]) > 5 =>
                        \E k \in DOMAIN OperatorStatus.Issues :
                            OperatorStatus.Issues[k] =
                                "Pod " \o pods[i].Name \o " has restarted "
                                    \o ToString(RestartTotal(pods[i])) \o " times"
            /\ (\A i \in DOMAIN pods : RunningAndReady(pods[i])) =>
                  /\ OperatorStatus.IsHealthy
                  /\ Len(OperatorStatus.Issues) =
                        Cardinality({i \in DOMAIN pods : RestartTotal(pods[i]) > 5})

\* A Running and Ready pod whose two containers restarted 3 times each, next to
\* one whose containers restarted 0 and 5 times: healthy, one restart issue.
C11_Witness ==
    /\ op = "collectOperatorStatus"
    /\ ~arg.cluster.operatorPodsErr
    /\ Len(arg.cluster.operatorPods) = 2
    /\ \A i \in {1, 2} : RunningAndReady(arg.cluster.operatorPods[i])
    /\ Len(arg.cluster.operatorPods[1].ContainerStatuses) = 2
    /\ \A c \in {1, 2} : arg.cluster.operatorPods[1].ContainerStatuses[c].RestartCount = 3
    /\ RestartTotal(arg.cluster.operatorPods[2]) = 5
    /\ ret.status.IsHealthy = TRUE
    /\ ret.status.Issues = <<"Pod " \o arg.cluster.operatorPods[1].Name \o " has restarted 6 times">>


\* C12: for every list of N check results, whatever their status strings,
\* GetCheckCounts returns Total = Pass + Fail + Manual + Error + Info = N.
C12_TotalIsTheSumOfTheBuckets ==
    op = "GetCheckCounts" =>
        /\ ret.Total = Len(arg.checkResults)
        /\ ret.Total = ret.Pass + ret.Fail + ret.Manual + ret.Error + ret.Info


\* C13 as stated: for every CheckCounts value CalculateCompliancePercentage
\* returns 100 * Pass / (Pass + Fail), and 0 when Pass + Fail is 0, whatever
\* the Manual, Error, Info and Total fields hold.
C13_PercentageOfPassAndFail ==
    op = "CalculateCompliancePercentage" =>
        LET counts == arg.counts
        IN  IF counts.Pass + counts.Fail = 0
            THEN ret.num = 0
            ELSE ret.num * (counts.Pass + counts.Fail) = 100 * counts.Pass * ret.den


\* C13 amended: CalculateCompliancePercentage returns 0 when Total is 0 or
\* Pass + Fail is 0, and 100 * Pass / (Pass + Fail) otherwise; Manual, Error
\* and Info never change the result and Total only by being 0.
C13_PercentageUnlessTotalIsZero ==
    op = "CalculateCompliancePercentage" =>
        LET counts == arg.counts
        IN  /\ ret.den # 0
            /\ IF counts.Total = 0 \/ counts.Pass + counts.Fail = 0
               THEN ret.num = 0
               ELSE ret.num * (counts.Pass + counts.Fail) = 100 * counts.Pass * ret.den
            /\ LET plain == [counts EXCEPT !.Manual = 0, !.Error = 0, !.Info = 0,
                                            !.Total = IF @ = 0 THEN 0 ELSE 1]
                   r == CalculateCompliancePercentage(plain)
               IN  r.num * ret.den = ret.num * r.den

\* The call on {Pass: 3, Fail: 1, Manual: 2, Total: 6}, which returns 75.
C13_Witness ==
    /\ op = "CalculateCompliancePercentage"
    /\ arg.counts.Pass = 3
    /\ arg.counts.Fail = 1
    /\ arg.counts.Manual = 2
    /\ arg.counts.Total = 6
    /\ ret.num = 75 * ret.den


\* The Accessor operations among the reads of a call.
ReadOperations == {ret.reads[i][1] : i \in DOMAIN ret.reads}

\* C14: when the suite listing fails CollectAllData returns an error and no
\* snapshot, and the suite listing is the only Accessor read it issued.
C14_SuiteListingFailureAborts ==
    (op = "CollectAllData" /\ arg.cluster.suitesErr) =>
        /\ ret.err # ""
        /\ ret.data = Nil
        /\ Len(ret.reads) = 1
        /\ ReadOperations = {"GetComplianceSuites"}

\* A failed suite listing on a cluster whose scan, check-result, remediation
\* and operator-pod listings would all have answered.
C14_Witness ==
    /\ op = "CollectAllData"
    /\ arg.cluster.suitesErr
    /\ ~arg.cluster.scansErr
    /\ ~arg.cluster.operatorPodsErr
    /\ Len(arg.cluster.scans) = 2
    /\ arg.cluster.checkErr = {}
    /\ arg.cluster.remErr = {}
    /\ Len(arg.cluster.operatorPods) > 0
    /\ ret.err = "failed to collect suites"
    /\ ret.data = Nil


\* The stored scans whose suite-owner label is the requested suite name.
ScansOwnedBySuite ==
    SelectSeq(arg.cluster.scans, LAMBDA o : o.suite = arg.suiteName)

SuiteStored ==
    \E i \in DOMAIN arg.cluster.suites : arg.cluster.suites[i].name = arg.suiteName

\* C15: CollectSuiteData returns an error, having read nothing but the suite,
\* when the named suite is not stored; when the suite is read and the scan
\* listing answers, it succeeds, its scans are exactly the stored scans
\* labelled with the suite name, in listing order, and a scan is a key of
\* CheckResults (Remediations) exactly when its check-result (remediation)
\* fetch succeeded, with its own objects under the key.
C15_CollectSuiteData ==
    op = "CollectSuiteData" =>
        /\ ~SuiteStored =>
              /\ ret.err # ""
              /\ ret.data = Nil
              /\ ret.reads = <<<<"GetComplianceSuite", arg.suiteName>>>>
        /\ (SuiteStored /\ ~arg.cluster.suitesErr /\ ~arg.cluster.scansErr) =>
              /\ ret.err = ""
              /\ ret.data # Nil
              /\ LET data == ret.data[1]
                     owned == ScansOwnedBySuite
                     names == {owned[i].name : i \in DOMAIN owned}
                 IN  /\ data.Suite.Name = arg.suiteName
                     /\ Len(data.Scans) = Len(owned)
                     /\ \A i \in DOMAIN owned :
                           /\ data.Scans[i].Name = owned[i].name
                           /\ data.Scans[i].Labels = arg.suiteName
                     /\ DOMAIN data.CheckResults = names \ arg.cluster.checkErr
                     /\ DOMAIN data.Remediations = names \ arg.cluster.remErr
                     /\ \A n \in DOMAIN data.CheckResults :
                           /\ Len(data.CheckResults[n]) = Len(arg.cluster.checks[n])
                           /\ \A k \in DOMAIN data.CheckResults[n] :
                                 data.CheckResults[n][k].Name = arg.cluster.checks[n][k].name
                     /\ \A n \in DOMAIN data.Remediations :
                           /\ Len(data.Remediations[n]) = Len(arg.cluster.rems[n])
                           /\ \A k \in DOMAIN data.Remediations[n] :
                                 data.Remediations[n][k].Name = arg.cluster.rems[n][k].name

\* A collection of suite-a over two stored scans, the first labelled suite-a
\* with a failing check-result fetch, the second labelled suite-b: one scan is
\* returned, with its remediations and without a CheckResults key.
C15_Witness ==
    /\ op = "CollectSuiteData"
    /\ arg.suiteName = "suite-a"
    /\ ret.err = ""
    /\ Len(arg.cluster.scans) = 2
    /\ arg.cluster.scans[1].suite = "suite-a"
    /\ arg.cluster.scans[2].suite = "suite-b"
    /\ arg.cluster.scans[1].name \in arg.cluster.checkErr
    /\ arg.cluster.scans[1].name \notin arg.cluster.remErr
    /\ Len(ret.data[1].Scans) = 1
    /\ DOMAIN ret.data[1].CheckResults = {}
    /\ DOMAIN ret.data[1].Remediations = {arg.cluster.scans[1].name}


\* The number of times issue x occurs in the sequence of issues s.
Occurrences(s, x) == Cardinality({k \in DOMAIN s : s[k] = x})

\* The scans of a pass, as the Accessor lists them.
AnalyzedScans == GetComplianceScans(arg.cluster, "").items

\* What the four per-scan rules derive for a scan whose scanner pods and
\* events were both listed.
DerivedFor(scan) ==
    stuckScanIssues(scan, arg.now)
    \o DetectFailedPods(arg.cluster.scannerPods[scan.Name])
    \o DetectResourceConstraints(arg.cluster.scannerPods[scan.Name])
    \o DetectPermissionIssuesForScan(arg.cluster, scan.Name).issues

FullyListed(scan) ==
    scan.Name \in DOMAIN arg.cluster.scannerPods /\ scan.Name \in DOMAIN arg.cluster.events

\* C16: when the scan listing answers, AnalyzeAll succeeds whatever scanner-pod
\* or event listing fails, and its result holds every issue the rules derive
\* for every scan whose own listings answered, as often as they derive it.
C16_PerScanFailureDoesNotAbort ==
    (op = "AnalyzeAll" /\ ~arg.cluster.scansErr) =>
        /\ ret.err = ""
        /\ ret.result # Nil
        /\ \A i \in DOMAIN AnalyzedScans :
              FullyListed(AnalyzedScans[i]) =>
                  LET derived == DerivedFor(AnalyzedScans[i])
                  IN  \A k \in DOMAIN derived :
                          Occurrences(AllIssues, derived[k]) >= Occurrences(derived, derived[k])

\* A pass over two scans in which one scan's pod listing failed, the other
\* scan's listings answered and the result holds that scan's issues.
C16_Witness ==
    /\ Analyzed
    /\ Len(AnalyzedScans) = 2
    /\ \E i, j \in {1, 2} :
          /\ i # j
          /\ AnalyzedScans[i].Name \in arg.cluster.podsErr
          /\ FullyListed(AnalyzedScans[j])
          /\ Len(DerivedFor(AnalyzedScans[j])) >= 3
          /\ Len(AllIssues) >= 3


\* The scans of a pass whose event listing answered with a Warning event that
\* carries a permission keyword.
ScansWithPermissionEvents ==
    {n \in DOMAIN arg.cluster.events :
        \E k \in DOMAIN arg.cluster.events[n] :
            /\ arg.cluster.events[n][k].Type = "Warning"
            /\ KeywordsIn(arg.cluster.events[n][k].Message) # {}}

\* C17: a scan with a Warning event that carries a permission keyword has a
\* Critical Permission issue in the result of AnalyzeAll, whether or not the
\* listing of its scanner pods succeeded.
C17_PermissionRuleIgnoresPodListing ==
    Analyzed =>
        \A n \in ScansWithPermissionEvents :
            \E k \in DOMAIN ret.result[1].Issues :
                /\ ret.result[1].Issues[k].Type = "Permission"
                /\ ret.result[1].Issues[k].Severity = "Critical"
                /\ ret.result[1].Issues[k].Resources[1] = n


Operation == op \in {"CollectAllData", "CollectSuiteData", "AnalyzeAll"}

\* Whether the cluster answers the read <<operation, name>> with an error.
ReadFails(read) ==
    LET cluster == arg.cluster
    IN  CASE read[1] = "GetComplianceSuites" -> cluster.suitesErr
          [] read[1] = "GetComplianceSuite" -> GetComplianceSuite(cluster, read[2]).err
          [] read[1] = "GetComplianceScans" -> cluster.scansErr
          [] read[1] = "GetComplianceCheckResults" -> read[2] \in cluster.checkErr
          [] read[1] = "GetComplianceRemediations" -> read[2] \in cluster.remErr
          [] read[1] = "GetOperatorPods" -> cluster.operatorPodsErr
          [] read[1] = "GetScannerPods" -> read[2] \in cluster.podsErr
          [] read[1] = "GetEvents" -> read[2] \in cluster.eventsErr

\* C18: within one CollectAllData, CollectSuiteData or AnalyzeAll call no
\* Accessor read, identified by operation and name, is issued twice; in
\* particular a read that failed is not issued again.
C18_NoReadIsRepeated ==
    Operation =>
        \A i, j \in DOMAIN ret.reads : i # j => ret.reads[i] # ret.reads[j]

\* A pass over two scans in which the first scan's pod listing and the second
\* scan's event listing failed: four reads, the failed ones issued once.
C18_Witness ==
    /\ op = "AnalyzeAll"
    /\ Len(arg.cluster.scans) = 2
    /\ arg.cluster.podsErr = {arg.cluster.scans[1].name}
    /\ arg.cluster.eventsErr = {arg.cluster.scans[2].name}
    /\ ret.reads = <<<<"GetComplianceScans", "">>,
                     <<"GetScannerPods", arg.cluster.scans[1].name>>,
                     <<"GetScannerPods", arg.cluster.scans[2].name>>,
                     <<"GetEvents", arg.cluster.scans[2].name>>>>
    /\ \A i \in DOMAIN ret.reads :
          ReadFails(ret.reads[i]) => Occurrences(ret.reads, ret.reads[i]) = 1


\* Issue x is what a detection rule derives from a scan, its listed scanner
\* pods or its listed events.
RuleDerived(x) ==
    \E i \in DOMAIN AnalyzedScans :
        LET scan == AnalyzedScans[i]
        IN  \/ x \in Range(stuckScanIssues(scan, arg.now))
            \/ /\ scan.Name \in DOMAIN arg.cluster.scannerPods
               /\ \/ x \in Range(DetectFailedPods(arg.cluster.scannerPods[scan.Name]))
                  \/ x \in Range(DetectResourceConstraints(arg.cluster.scannerPods[scan.Name]))
            \/ x \in Range(DetectPermissionIssuesForScan(arg.cluster, scan.Name).issues)

\* C19: Suggestions is the single "No issues detected" suggestion when Issues
\* and Warnings are both empty and is empty otherwise, and every issue of
\* Issues and Warnings is derived by a rule.
C19_OnlySynthesizedOutput ==
    Analyzed =>
        LET result == ret.result[1]
        IN  /\ IF result.Issues = <<>> /\ result.Warnings = <<>>
               THEN /\ Len(result.Suggestions) = 1
                    /\ Contains(result.Suggestions[1], "No issues detected")
               ELSE result.Suggestions = <<>>
            /\ \A k \in DOMAIN AllIssues : RuleDerived(AllIssues[k])

\* A pass over a scan whose only finding is a Warning: no Critical issue and
\* no suggestion.
C19_Witness ==
    /\ Analyzed
    /\ Len(AnalyzedScans) > 0
    /\ ret.result[1].Issues = <<>>
    /\ Len(ret.result[1].Warnings) > 0
    /\ ret.result[1].Suggestions = <<>>


\* The issues of the scan-error rule among issues that name the scan.
ScanErrorIssues(issues, name) ==
    {k \in DOMAIN issues :
        /\ issues[k].Resources = <<name>>
        /\ Contains(issues[k].Description, "completed with ERROR result")}

\* Among issues there is exactly one scan-error issue for every scan of scans
\* whose result is ERROR, Critical and quoting the scan's name and error
\* message, and none for any other scan.
OneErrorIssuePerErrorScan(scans, issues) ==
    \A i \in DOMAIN scans :
        LET found == ScanErrorIssues(issues, scans[i].Name)
        IN  /\ Cardinality(found) = IF scans[i].Status.Result = "ERROR" THEN 1 ELSE 0
            /\ \A k \in found :
                  /\ issues[k].Severity = "Critical"
                  /\ Contains(issues[k].Description, "'" \o scans[i].Name \o "'")
                  /\ Contains(issues[k].Description, scans[i].Status.ErrorMessage)

\* C20: DetectStuckScans, called directly or by AnalyzeAll on the listed
\* scans, emits exactly one Critical scan-error issue for every scan whose
\* result is ERROR, whatever its phase and start timestamp, naming the scan and
\* quoting its error message, and none for a scan with another result.
C20_OneErrorIssuePerErrorScan ==
    /\ op = "DetectStuckScans" => OneErrorIssuePerErrorScan(arg.scans, ret)
    /\ Analyzed => /\ OneErrorIssuePerErrorScan(AnalyzedScans, ret.result[1].Issues)
                   /\ \A i \in DOMAIN AnalyzedScans :
                         ScanErrorIssues(ret.result[1].Warnings, AnalyzedScans[i].Name) = {}

\* A call over a scan RUNNING for 31 minutes whose result is ERROR, which gets
\* a StuckScan issue and one scan-error issue, and a COMPLIANT scan, which gets
\* none.
C20_Witness ==
    /\ op = "DetectStuckScans"
    /\ Len(arg.scans) = 2
    /\ arg.scans[1].Status.Phase = "RUNNING"
    /\ arg.scans[1].Status.StartTimestamp = Some(arg.now - 1860)
    /\ arg.scans[1].Status.Result = "ERROR"
    /\ arg.scans[2].Status.Result = "COMPLIANT"
    /\ Len(StuckIssuesFor(arg.scans[1].Name)) = 1
    /\ Cardinality(ScanErrorIssues(ret, arg.scans[1].Name)) = 1
    /\ ScanErrorIssues(ret, arg.scans[2].Name) = {}


\* The positions in the returned issues of the issues that name the pod.
ReturnedFor(pod) == {k \in DOMAIN ret : ret[k].Resources = <<pod.Name>>}

OOMKilledContainers(pod) ==
    {c \in DOMAIN pod.ContainerStatuses :
        /\ pod.ContainerStatuses[c].LastTerminated # Nil
        /\ pod.ContainerStatuses[c].LastTerminated[1].Reason = "OOMKilled"}

\* C21: DetectFailedPods returns, for every pod, as many OutOfMemory issues
\* naming the pod as the pod has containers whose last termination reason is
\* OOMKilled, every one Critical, and one naming each such container.
C21_OneOOMIssuePerKilledContainer ==
    op = "DetectFailedPods" =>
        \A i \in DOMAIN arg.pods :
            LET pod == arg.pods[i]
                oom == {k \in ReturnedFor(pod) : ret[k].Type = "OutOfMemory"}
            IN  /\ Cardinality(oom) = Cardinality(OOMKilledContainers(pod))
                /\ \A k \in oom : ret[k].Severity = "Critical"
                /\ \A c \in OOMKilledContainers(pod) :
                      \E k \in oom :
                          Contains(ret[k].Description,
                                   "'" \o pod.ContainerStatuses[c].Name \o "'")

\* A pod with one OOM-killed container that is not waiting and one container
\* that never terminated: exactly one OutOfMemory issue.
C21_Witness ==
    /\ op = "DetectFailedPods"
    /\ Len(arg.pods) = 1
    /\ Len(arg.pods[1].ContainerStatuses) = 2
    /\ arg.pods[1].ContainerStatuses[1].Waiting = Nil
    /\ arg.pods[1].ContainerStatuses[1].LastTerminated = Some([Reason |-> "OOMKilled"])
    /\ arg.pods[1].ContainerStatuses[2].LastTerminated = Nil
    /\ Cardinality({k \in DOMAIN ret : ret[k].Type = "OutOfMemory"}) = 1


BlockedContainers(pod) ==
    {c \in DOMAIN pod.ContainerStatuses :
        /\ pod.ContainerStatuses[c].Waiting # Nil
        /\ pod.ContainerStatuses[c].Waiting[1].Reason
              \in {"ImagePullBackOff", "ErrImagePull", "CrashLoopBackOff"}}

\* C22: DetectFailedPods returns a Critical FailedPod issue naming the pod for
\* a pod whose phase is Failed, quoting the pod's failure reason, and one for
\* every container whose waiting reason is ImagePullBackOff, ErrImagePull or
\* CrashLoopBackOff; a pod that is not Failed and has no such container gets no
\* Critical FailedPod issue.
C22_CriticalFailedPodIssues ==
    op = "DetectFailedPods" =>
        \A i \in DOMAIN arg.pods :
            LET pod == arg.pods[i]
                critical == {k \in ReturnedFor(pod) :
                                ret[k].Type = "FailedPod" /\ ret[k].Severity = "Critical"}
            IN  /\ Cardinality(critical) =
                      (IF pod.Phase = "Failed" THEN 1 ELSE 0)
                      + Cardinality(BlockedContainers(pod))
                /\ pod.Phase = "Failed" =>
                      \E k \in critical :
                          Contains(ret[k].Description, "failed with reason: " \o pod.Reason)
                /\ \A k \in critical : Contains(ret[k].Description, "'" \o pod.Name \o "'")

\* A Failed pod with a crash-looping container (two Critical FailedPod issues)
\* next to a Running pod without containers (none).
C22_Witness ==
    /\ op = "DetectFailedPods"
    /\ \E i \in DOMAIN arg.pods :
          /\ arg.pods[i].Phase = "Failed"
          /\ Cardinality(BlockedContainers(arg.pods[i])) >= 1
          /\ Cardinality({k \in ReturnedFor(arg.pods[i]) :
                             ret[k].Type = "FailedPod" /\ ret[k].Severity = "Critical"}) >= 2
    /\ \E i \in DOMAIN arg.pods :
          /\ arg.pods[i].Phase = "Running"
          /\ arg.pods[i].ContainerStatuses = <<>>
          /\ ReturnedFor(arg.pods[i]) = {}


RestartedContainers(pod) ==
    {c \in DOMAIN pod.ContainerStatuses : pod.ContainerStatuses[c].RestartCount > 5}

\* The positions in issues of the high-restart issues that name the pod.
RestartIssues(issues, pod) ==
    {k \in DOMAIN issues :
        /\ issues[k].Resources = <<pod.Name>>
        /\ Contains(issues[k].Description, " has restarted ")}

\* C23: DetectFailedPods returns one Warning issue for every container whose
\* restart count is above 5 and none for a container at 5 or below; AnalyzeAll
\* puts these issues in Warnings and never in Issues, and a pass whose rules
\* derive nothing but high-restart issues has empty Issues, non-empty Warnings
\* and no suggestion.
C23_HighRestartIsAWarning ==
    /\ op = "DetectFailedPods" =>
          \A i \in DOMAIN arg.pods :
              LET found == RestartIssues(ret, arg.pods[i])
              IN  /\ Cardinality(found) = Cardinality(RestartedContainers(arg.pods[i]))
                  /\ \A k \in found : ret[k].Severity = "Warning"
    /\ Analyzed =>
          /\ \A pod \in ListedPods :
                /\ Cardinality(RestartIssues(ret.result[1].Warnings, pod))
                      = Cardinality(RestartedContainers(pod))
                /\ RestartIssues(ret.result[1].Issues, pod) = {}
          /\ (/\ RuleIssues # <<>>
              /\ \A k \in DOMAIN RuleIssues :
                    Contains(RuleIssues[k].Description, " has restarted "))
             => /\ ret.result[1].Issues = <<>>
                /\ ret.result[1].Warnings # <<>>
                /\ ret.result[1].Suggestions = <<>>

\* A pass over a cluster whose only finding is a scanner-pod container that
\* restarted 6 times.
C23_Witness ==
    /\ Analyzed
    /\ \E pod \in ListedPods : Cardinality(RestartedContainers(pod)) = 1
    /\ \A pod \in ListedPods : BlockedContainers(pod) = {} /\ pod.Phase = "Running"
    /\ ret.result[1].Issues = <<>>
    /\ Len(ret.result[1].Warnings) = 1
    /\ ret.result[1].Warnings[1].Severity = "Warning"
    /\ ret.result[1].Suggestions = <<>>


\* The pod is Pending and carries a PodScheduled condition with status False
\* whose reason or message contains "Insufficient".
Unschedulable_Insufficient(pod) ==
    /\ pod.Phase = "Pending"
    /\ \E c \in DOMAIN pod.Conditions :
          /\ pod.Conditions[c].Type = "PodScheduled"
          /\ pod.Conditions[c].Status = "False"
          /\ \/ Contains(pod.Conditions[c].Reason, "Insufficient")
             \/ Contains(pod.Conditions[c].Message, "Insufficient")

\* C24: DetectResourceConstraints returns an issue naming a pod exactly when
\* the pod is Pending with a PodScheduled condition that is False and whose
\* reason or message contains "Insufficient"; every issue it returns is a
\* Critical ResourceConstraint issue.
C24_ResourceConstraintRule ==
    op = "DetectResourceConstraints" =>
        /\ \A i \in DOMAIN arg.pods :
              (ReturnedFor(arg.pods[i]) # {}) <=> Unschedulable_Insufficient(arg.pods[i])
        /\ \A k \in DOMAIN ret :
              /\ ret[k].Type = "ResourceConstraint"
              /\ ret[k].Severity = "Critical"
              /\ \E i \in DOMAIN arg.pods : ret[k].Resources = <<arg.pods[i].Name>>

\* A Pending pod whose PodScheduled condition is False with "Insufficient
\* memory" in its message (one issue) next to a Running pod with the same
\* condition (none).
C24_Witness ==
    /\ op = "DetectResourceConstraints"
    /\ Len(arg.pods) = 2
    /\ arg.pods[1].Phase = "Pending"
    /\ Unschedulable_Insufficient(arg.pods[1])
    /\ arg.pods[2].Phase = "Running"
    /\ arg.pods[2].Conditions = arg.pods[1].Conditions
    /\ Len(ret) = 1
    /\ ret[1].Resources = <<arg.pods[1].Name>>


\* The issues a call of a rule returned.
ReturnedIssues ==
    IF op = "DetectPermissionIssuesForScan" THEN ret.issues
    ELSE IF op = "AnalyzeAll" THEN (IF ret.err = "" THEN AllIssues ELSE <<>>)
    ELSE ret

RuleCalled ==
    op \in {"DetectStuckScans", "DetectFailedPods", "DetectResourceConstraints",
            "DetectPermissionIssuesForScan", "AnalyzeScanFailure", "AnalyzeAll"}

\* C25: every issue a rule returns, and every issue of AnalyzeAll's result,
\* carries at least one resource name, none of them empty; the issues of
\* AnalyzeAll's result are the issues its rules returned, each as often and
\* with every field unchanged.
C25_IssuesNameAResource ==
    /\ RuleCalled =>
          \A k \in DOMAIN ReturnedIssues :
              /\ Len(ReturnedIssues[k].Resources) >= 1
              /\ \A r \in DOMAIN ReturnedIssues[k].Resources :
                    ReturnedIssues[k].Resources[r] # ""
    /\ Analyzed =>
          LET derived == RuleIssues
              reported == AllIssues
          IN  /\ Len(reported) = Len(derived)
              /\ \A k \in DOMAIN derived :
                    Occurrences(reported, derived[k]) = Occurrences(derived, derived[k])
              /\ \A k \in DOMAIN reported : RuleDerived(reported[k])

\* A pass whose result holds a scan-error issue, pod issues and a permission
\* issue, the last with two resource names.
C25_Witness ==
    /\ Analyzed
    /\ \E k \in DOMAIN AllIssues : AllIssues[k].Type = "Permission" /\ Len(AllIssues[k].Resources) = 2
    /\ \E k \in DOMAIN AllIssues : AllIssues[k].Type = "OutOfMemory"
    /\ \E k \in DOMAIN AllIssues : AllIssues[k].Type = "ResourceConstraint"
    /\ \E k \in DOMAIN AllIssues : Contains(AllIssues[k].Description, "completed with ERROR result")

\* ---------------------------------------------------------------------------
\* The status overview
\* ---------------------------------------------------------------------------
OverviewReturned == op = "ComplianceStatusOverview" /\ ret.err = ""

\* The result values in the order compliance/types.go declares them.
ResultValues ==
    <<ResultNotAvailable, ResultCompliant, ResultNonCompliant,
      ResultError, ResultInconsistent, ResultNotApplicable>>

\* The stored suites an overview for suiteName is about.
StoredSuitesShown(suites, suiteName) ==
    IF suiteName # Nil /\ suiteName[1] # ""
    THEN SelectSeq(suites, LAMBDA s : s.name = suiteName[1])
    ELSE suites

\* One line per result value the stored scan statuses hold, with its count, in
\* the order of ResultValues.
EnumeratedCountLines(scanStatuses) ==
    LET present == SelectSeq(ResultValues,
                             LAMBDA r : \E i \in DOMAIN scanStatuses :
                                           scanStatuses[i].result = r)
    IN  [k \in DOMAIN present |->
            "  - " \o present[k] \o ": "
            \o ToString(Cardinality({i \in DOMAIN scanStatuses :
                                        scanStatuses[i].result = present[k]}))]

HasLines(output, lines) ==
    \E k \in 1..(Len(output) - Len(lines) + 1) :
        SubSeq(output, k, k + Len(lines) - 1) = lines

\* C26: for a suite whose status lists scans, the overview holds the
\* result-count lines of the suite, one per result value present, in the
\* enumeration order of the result values.
C26_ResultCountLinesInEnumerationOrder ==
    OverviewReturned =>
        LET shown == StoredSuitesShown(arg.cluster.suites, arg.suiteName)
        IN  \A i \in DOMAIN shown :
                shown[i].scanStatuses # <<>> =>
                    HasLines(ret.output[1],
                             <<"**Scans:** " \o ToString(Len(shown[i].scanStatuses))>>
                             \o EnumeratedCountLines(shown[i].scanStatuses))


\* The overview was asked for a suite by name and the data was collected.
AskedForSuite ==
    /\ op = "ComplianceStatusOverview"
    /\ arg.suiteName # Nil /\ arg.suiteName[1] # ""
    /\ CollectAllData(arg.cluster).err = ""

\* C27: an overview asked for a suite_name that no suite of the namespace has,
\* also when the namespace has no suite, fails with a "not found" error.
C27_UnknownSuiteIsNotFound ==
    (AskedForSuite /\ \A i \in DOMAIN arg.cluster.suites :
                          arg.cluster.suites[i].name # arg.suiteName[1])
        => /\ Contains(ret.err, "not found")
           /\ ret.output = Nil


\* ---------------------------------------------------------------------------
\* CollectAllData: the listings that abort it, and the keys of its maps
\* ---------------------------------------------------------------------------
\* Every check-result and remediation fetch of the cluster succeeds.
EveryFetchSucceeds(cluster) == cluster.checkErr = {} /\ cluster.remErr = {}

\* C28: CollectAllData returns an error and no data when the scan listing or
\* the operator-pod listing fails, whatever else succeeds, and it returns an
\* error only when the suite, scan or operator-pod listing failed.
C28_ScanAndOperatorListingsAbort ==
    op = "CollectAllData" =>
        LET cluster == arg.cluster
        IN  /\ (cluster.scansErr \/ cluster.operatorPodsErr) =>
                   ret.err # "" /\ ret.data = Nil
            /\ (~cluster.suitesErr /\ cluster.scansErr) =>
                   ret.err = "failed to collect scans"
            /\ (~cluster.suitesErr /\ ~cluster.scansErr /\ cluster.operatorPodsErr) =>
                   ret.err = "failed to collect operator status"
            /\ ret.err # "" =>
                   cluster.suitesErr \/ cluster.scansErr \/ cluster.operatorPodsErr
            /\ ret.err = "" <=> ret.data # Nil

\* The operator-pod listing failed after two scans were collected with every
\* fetch succeeding, and the call returned the error without data.
C28_Witness ==
    /\ op = "CollectAllData"
    /\ ~arg.cluster.suitesErr
    /\ ~arg.cluster.scansErr
    /\ arg.cluster.operatorPodsErr
    /\ Len(arg.cluster.scans) = 2
    /\ EveryFetchSucceeds(arg.cluster)
    /\ \A n \in ListedScanNames(arg.cluster) : Len(arg.cluster.checks[n]) > 0
    /\ ret.err = "failed to collect operator status"
    /\ ret.data = Nil

\* C29: in the data CollectAllData returns, every key of CheckResults and of
\* Remediations is a key of Scans, and a scan is a key of CheckResults
\* (Remediations) exactly when its check-result (remediation) fetch succeeded,
\* with the empty list as its value when the fetch answered no object.
C29_KeysFollowTheFetches ==
    (op = "CollectAllData" /\ ret.err = "") =>
        LET data == ret.data[1]
            cluster == arg.cluster
        IN  /\ DOMAIN data.CheckResults \subseteq DOMAIN data.Scans
            /\ DOMAIN data.Remediations \subseteq DOMAIN data.Scans
            /\ \A n \in DOMAIN data.Scans :
                 LET checkResults == GetComplianceCheckResults(cluster, n, "")
                     remediations == GetComplianceRemediations(cluster, n)
                 IN  /\ n \in DOMAIN data.CheckResults <=> ~checkResults.err
                     /\ n \in DOMAIN data.Remediations <=> ~remediations.err
                     /\ (~checkResults.err /\ checkResults.items = <<>>) =>
                            data.CheckResults[n] = <<>>
                     /\ (~remediations.err /\ remediations.items = <<>>) =>
                            data.Remediations[n] = <<>>

\* Two scans were collected: the check-result fetch of one answered the empty
\* list and its key is in CheckResults, the fetch of the other failed and its
\* key is missing; the remediation fetch of one answered the empty list.
C29_Witness ==
    /\ op = "CollectAllData"
    /\ ret.err = ""
    /\ \E n, m \in DOMAIN ret.data[1].Scans :
          /\ n # m
          /\ ~GetComplianceCheckResults(arg.cluster, n, "").err
          /\ GetComplianceCheckResults(arg.cluster, n, "").items = <<>>
          /\ n \in DOMAIN ret.data[1].CheckResults
          /\ ret.data[1].CheckResults[n] = <<>>
          /\ GetComplianceCheckResults(arg.cluster, m, "").err
          /\ m \notin DOMAIN ret.data[1].CheckResults
          /\ ~GetComplianceRemediations(arg.cluster, m).err
          /\ GetComplianceRemediations(arg.cluster, m).items = <<>>
          /\ m \in DOMAIN ret.data[1].Remediations


\* ---------------------------------------------------------------------------
\* The operator health summary
\* ---------------------------------------------------------------------------
\* The summary after the per-pod loop of collectOperatorStatus has handled the
\* first k pods of the listing.
StatusAfter(pods, k) ==
    checkOperatorPods([OperatorPods |-> <<>>, IsHealthy |-> TRUE, Issues |-> <<>>],
                      SubSeq(pods, 1, k), 1)

\* C30: in every operator health summary an IsHealthy of false comes with at
\* least one issue; once a pod of the listing has made IsHealthy false it is
\* false after every later pod and in the summary returned; and for a
\* non-empty listing OperatorPods holds one entry per listed pod, in listing
\* order.
C30_HealthSummaryShape ==
    /\ op = "collectOperatorStatus" =>
          (~ret.status.IsHealthy => Len(ret.status.Issues) > 0)
    /\ HealthChecked =>
        LET pods == arg.cluster.operatorPods
            status == OperatorStatus
        IN  /\ ~status.IsHealthy => Len(status.Issues) > 0
            /\ \A k \in 1..Len(pods) :
                 /\ ~StatusAfter(pods, k).IsHealthy => Len(StatusAfter(pods, k).Issues) > 0
                 /\ ~StatusAfter(pods, k).IsHealthy =>
                        /\ \A j \in k..Len(pods) : ~StatusAfter(pods, j).IsHealthy
                        /\ ~status.IsHealthy
                 /\ ~RunningAndReady(pods[k]) => ~status.IsHealthy
            /\ Len(pods) > 0 =>
                 /\ status = StatusAfter(pods, Len(pods))
                 /\ Len(status.OperatorPods) = Len(pods)
                 /\ \A i \in DOMAIN pods : status.OperatorPods[i].Name = pods[i].Name

\* A listing whose first pod is not Running and whose last pod is Running and
\* ready: the summary is unhealthy, has issues, and names the pods in order.
C30_Witness ==
    /\ op = "collectOperatorStatus"
    /\ ~arg.cluster.operatorPodsErr
    /\ Len(arg.cluster.operatorPods) = 2
    /\ ~RunningAndReady(arg.cluster.operatorPods[1])
    /\ RunningAndReady(arg.cluster.operatorPods[2])
    /\ ~StatusAfter(arg.cluster.operatorPods, 1).IsHealthy
    /\ ~ret.status.IsHealthy
    /\ Len(ret.status.Issues) > 0
    /\ Len(ret.status.OperatorPods) = 2
    /\ ret.status.OperatorPods[1].Name = arg.cluster.operatorPods[1].Name
    /\ ret.status.OperatorPods[2].Name = arg.cluster.operatorPods[2].Name
    /\ ret.status.OperatorPods[1].Name # ret.status.OperatorPods[2].Name

====
